---- MODULE Spec2Model ----
(***************************************************************************)
(* The bookmark forest of the code-bookmark extension: Bookmark,           *)
(* BookmarkGroup and BookmarkManager (src/src/bookmark.ts,                 *)
(* src/src/bookmarkGroup.ts, src/src/bookmarkManager.ts).                  *)
(*                                                                         *)
(* Objects live in two heaps (bk, gp) indexed by addresses, so that object *)
(* identity and the `id` field are different things, as in the code.       *)
(* JavaScript strings are sequences of tokens; a JSON record is a TLA+     *)
(* record whose missing properties are missing fields.                     *)
(***************************************************************************)
EXTENDS Integers, Sequences, FiniteSets, TLC

\* Bounds of the model.
MaxClock == 1
RandRange == 2
MaxBkObj == 3
MaxGpObj == 3
MaxCalls == 3
MaxTabs == 2

\* The JavaScript values undefined and null.
undefined == <<"<undefined>">>
null == [null |-> TRUE]

\* JavaScript truthiness of a string-or-undefined value, and `v || w`.
Falsy(v) == v = undefined \/ v = <<>>
OrElse(v, w) == IF Falsy(v) THEN w ELSE v

\* Property access data.f on a JSON record.
Field(data, f) == IF f \in DOMAIN data THEN data[f] ELSE undefined

\* String(v), the coercion RegExp.exec applies to its argument.
ToStr(v) == IF v = undefined THEN <<"undefined">> ELSE v

\* First position of a token in a string, 0 when absent.
IndexOf(s, tok) ==
    IF \E i \in 1..Len(s) : s[i] = tok
    THEN CHOOSE i \in 1..Len(s) : s[i] = tok /\ \A j \in 1..(i - 1) : s[j] # tok
    ELSE 0

\* Date: a millisecond count, or the Invalid Date.
InvalidDate == -1
ToISOString(d) == <<"iso", d>>
DateParse(v) == IF Len(v) = 2 /\ v[1] = "iso" THEN v[2] ELSE InvalidDate

(***************************************************************************)
(* vscode.Uri, as far as Bookmark uses it.                                 *)
(***************************************************************************)
PercentDecode(s) == [i \in 1..Len(s) |-> IF s[i] = "%20" THEN " " ELSE s[i]]
PercentEncode(s) == [i \in 1..Len(s) |-> IF s[i] = " " THEN "%20" ELSE s[i]]

\* The Uri regular expression (query and fragment left out), group by
\* group: the scheme ends at the first ":" when no "/" comes before it.
SchemeEnd(s) ==
    LET c == IndexOf(s, ":") IN
    IF c > 1 /\ \A j \in 1..(c - 1) : s[j] # "/" THEN c ELSE 0

\* The authority and the path of r, the text after "//"; e is the position
\* of the first "/" of r.
UriMatchPath(scheme, r, e) ==
    [scheme |-> scheme,
     authority |-> PercentDecode(IF e = 0 THEN r ELSE SubSeq(r, 1, e - 1)),
     path |-> PercentDecode(IF e = 0 THEN <<>> ELSE SubSeq(r, e, Len(r)))]

\* r is the text after the scheme.
UriMatchAuthority(scheme, r) ==
    IF Len(r) >= 2 /\ r[1] = "/" /\ r[2] = "/"
    THEN UriMatchPath(scheme, SubSeq(r, 3, Len(r)), IndexOf(SubSeq(r, 3, Len(r)), "/"))
    ELSE [scheme |-> scheme, authority |-> <<>>, path |-> PercentDecode(r)]

UriMatchScheme(s, c) ==
    IF c = 0 THEN UriMatchAuthority(<<>>, s)
    ELSE UriMatchAuthority(SubSeq(s, 1, c - 1), SubSeq(s, c + 1, Len(s)))

UriMatch(s) == UriMatchScheme(s, SchemeEnd(s))

SchemeFix(scheme) == IF scheme = <<>> THEN <<"file">> ELSE scheme

ReferenceResolution(scheme, path) ==
    IF scheme \in {<<"https">>, <<"http">>, <<"file">>}
    THEN IF path = <<>> THEN <<"/">>
         ELSE IF path[1] # "/" THEN <<"/">> \o path ELSE path
    ELSE path

ValidateUri(u) ==
    /\ \A i \in 1..Len(u.scheme) : u.scheme[i] \notin {" ", "%20"}
    /\ u.path # <<>> =>
          IF u.authority # <<>>
          THEN u.path[1] = "/"
          ELSE ~(Len(u.path) >= 2 /\ u.path[1] = "/" /\ u.path[2] = "/")

\* new Uri(scheme, authority, path): the Uri, or a thrown error.
Uri(scheme, authority, path) ==
    [scheme |-> SchemeFix(scheme),
     authority |-> authority,
     path |-> ReferenceResolution(SchemeFix(scheme), path)]
UriChecked(u) == [ok |-> ValidateUri(u), uri |-> u]
UriOfMatch(m) == UriChecked(Uri(m.scheme, m.authority, m.path))

\* vscode.Uri.parse(value) in its default, non-strict mode.
UriParse(v) == UriOfMatch(UriMatch(ToStr(v)))

\* uri.toString()
UriToString(u) ==
    u.scheme \o <<":">>
    \o (IF u.authority # <<>> \/ u.scheme = <<"file">> THEN <<"/", "/">> ELSE <<>>)
    \o PercentEncode(u.authority) \o PercentEncode(u.path)

\* uri.fsPath on a POSIX host.
FsPath(u) ==
    IF u.authority # <<>> /\ Len(u.path) > 1 /\ u.scheme = <<"file">>
    THEN <<"/", "/">> \o u.authority \o u.path
    ELSE u.path

\* path.basename(p)
RECURSIVE StripSlashes(_)
StripSlashes(p) ==
    IF p # <<>> /\ p[Len(p)] = "/" THEN StripSlashes(SubSeq(p, 1, Len(p) - 1)) ELSE p

RECURSIVE LastSegment(_)
LastSegment(p) ==
    IF p = <<>> \/ p[Len(p)] = "/" THEN <<>>
    ELSE LastSegment(SubSeq(p, 1, Len(p) - 1)) \o <<p[Len(p)]>>

Basename(p) == LastSegment(StripSlashes(p))

(***************************************************************************)
(* State.                                                                  *)
(***************************************************************************)
VARIABLES
    bookmarks,  \* BookmarkManager.bookmarks: addresses of the root bookmarks
    groups,     \* BookmarkManager.groups: addresses of the root groups
    bk,         \* heap of Bookmark objects
    gp,         \* heap of BookmarkGroup objects
    nextBk,     \* next free Bookmark address
    nextGp,     \* next free BookmarkGroup address
    store,      \* context.globalState value under 'tabBookmarks.data'
    clock,      \* Date.now()
    last,       \* the last manager call: its name, arguments, outcome and
                \* the events and persistence writes it made, in order
    calls,      \* number of calls made so far
    running     \* the openAll or closeAll call in progress, or the last one

vars == <<bookmarks, groups, bk, gp, nextBk, nextGp, store, clock, last, calls, running>>

\* globalState.get of a key that was never written.
absent == [absent |-> TRUE]

\* f extended by the new address a.
Alloc(f, a, obj) == [i \in DOMAIN f \cup {a} |-> IF i = a THEN obj ELSE f[i]]

\* const v = ...; F(v)
With(v, F(_)) == F(v)

(***************************************************************************)
(* Bookmark.                                                               *)
(***************************************************************************)
\* new Bookmark(uri, name, description); now and rnd are what Date.now() and
\* Math.random() returned, created is what new Date() returned.
Bookmark(uri, name, description, now, rnd, created) ==
    [id |-> <<"bookmark", now, rnd>>,
     uri |-> uri,
     name |-> OrElse(name, Basename(FsPath(uri))),
     description |-> OrElse(description, <<>>),
     createdAt |-> created]

\* JSON.stringify leaves out the properties whose value is undefined.
DropUndefined(rec) ==
    [f \in {g \in DOMAIN rec : g \notin {"id", "name"} \/ rec[g] # undefined} |-> rec[f]]

\* bookmark.toJSON(); toISOString throws a RangeError on the Invalid Date.
BookmarkToJSONThrows(b) == b.createdAt = InvalidDate
BookmarkToJSON(b) ==
    DropUndefined([id |-> b.id,
                   uri |-> UriToString(b.uri),
                   name |-> b.name,
                   description |-> b.description,
                   createdAt |-> ToISOString(b.createdAt)])

\* Bookmark.fromJSON(data): the object, or a thrown error.  pu is the
\* outcome of Uri.parse(data.uri).
BookmarkOfParsed(data, pu) ==
    IF ~pu.ok THEN [ok |-> FALSE]
    ELSE [ok |-> TRUE,
          obj |-> [Bookmark(pu.uri, Field(data, "name"), Field(data, "description"), 0, 0, 0)
                      EXCEPT !.id = Field(data, "id"),
                             !.createdAt = DateParse(Field(data, "createdAt"))]]
BookmarkFromJSON(data) ==
    IF data = null THEN [ok |-> FALSE]
    ELSE BookmarkOfParsed(data, UriParse(Field(data, "uri")))

(***************************************************************************)
(* BookmarkGroup.  The operators take and return an execution state x: a   *)
(* record of the heaps, the manager's fields, the store and the trace.     *)
(***************************************************************************)
\* new BookmarkGroup(name, description, parent); parent 0 is undefined.
BookmarkGroup(name, description, parent, now, rnd, created) ==
    [id |-> <<"group", now, rnd>>,
     name |-> name,
     description |-> OrElse(description, <<>>),
     bookmarks |-> <<>>,
     groups |-> <<>>,
     parent |-> parent,
     createdAt |-> created]

\* group.addBookmark(bookmark)
GroupAddBookmark(x, g, b) ==
    IF \E i \in 1..Len(x.gp[g].bookmarks) : x.bk[x.gp[g].bookmarks[i]].id = x.bk[b].id
    THEN x
    ELSE [x EXCEPT !.gp[g].bookmarks = Append(@, b)]

\* group.removeBookmark(id): whether it removes something, and the state after
GroupHasBookmark(x, g, id) ==
    \E i \in 1..Len(x.gp[g].bookmarks) : x.bk[x.gp[g].bookmarks[i]].id = id
GroupRemoveBookmark(x, g, id) ==
    [x EXCEPT !.gp[g].bookmarks = SelectSeq(@, LAMBDA a : x.bk[a].id # id)]

\* An addGroup that sets the parent reference whether or not it appends.
GroupAddGroupSettingParent(x, g, child) ==
    IF \E i \in 1..Len(x.gp[g].groups) : x.gp[x.gp[g].groups[i]].id = x.gp[child].id
    THEN [x EXCEPT !.gp[child].parent = g]
    ELSE [x EXCEPT !.gp[child].parent = g, !.gp[g].groups = Append(@, child)]

\* An addGroup that appends the child and leaves its parent reference alone.
GroupAddGroupKeepingParent(x, g, child) ==
    IF \E i \in 1..Len(x.gp[g].groups) : x.gp[x.gp[g].groups[i]].id = x.gp[child].id
    THEN x
    ELSE [x EXCEPT !.gp[g].groups = Append(@, child)]

\* group.addGroup(child)
GroupAddGroup(x, g, child) ==
    IF \E i \in 1..Len(x.gp[g].groups) : x.gp[x.gp[g].groups[i]].id = x.gp[child].id
    THEN x
    ELSE [x EXCEPT !.gp[child].parent = g, !.gp[g].groups = Append(@, child)]

\* group.removeGroup(id): whether it removes something, and the state after
GroupHasGroup(x, g, id) ==
    \E i \in 1..Len(x.gp[g].groups) : x.gp[x.gp[g].groups[i]].id = id
GroupRemoveGroup(x, g, id) ==
    [x EXCEPT !.gp[g].groups = SelectSeq(@, LAMBDA a : x.gp[a].id # id)]

\* group.isEmpty()
GroupIsEmpty(x, g) == Len(x.gp[g].bookmarks) = 0 /\ Len(x.gp[g].groups) = 0

\* group.getAllBookmarks()
RECURSIVE GroupGetAllBookmarks(_, _)
RECURSIVE ConcatAllBookmarks(_, _, _)
ConcatAllBookmarks(x, gs, i) ==
    IF i > Len(gs) THEN <<>>
    ELSE GroupGetAllBookmarks(x, gs[i]) \o ConcatAllBookmarks(x, gs, i + 1)
\* A collection that lists the bookmarks of the children before the own ones.
GroupBookmarksChildrenFirst(x, g) ==
    ConcatAllBookmarks(x, x.gp[g].groups, 1) \o x.gp[g].bookmarks

GroupGetAllBookmarks(x, g) ==
    x.gp[g].bookmarks \o ConcatAllBookmarks(x, x.gp[g].groups, 1)

\* group.toJSON()
RECURSIVE GroupToJSONThrows(_, _)
GroupToJSONThrows(x, g) ==
    \/ \E i \in 1..Len(x.gp[g].bookmarks) : BookmarkToJSONThrows(x.bk[x.gp[g].bookmarks[i]])
    \/ \E i \in 1..Len(x.gp[g].groups) : GroupToJSONThrows(x, x.gp[g].groups[i])
    \/ x.gp[g].createdAt = InvalidDate

RECURSIVE GroupToJSON(_, _)
GroupToJSON(x, g) ==
    DropUndefined([id |-> x.gp[g].id,
                   name |-> x.gp[g].name,
                   description |-> x.gp[g].description,
                   bookmarks |-> [i \in 1..Len(x.gp[g].bookmarks) |->
                                     BookmarkToJSON(x.bk[x.gp[g].bookmarks[i]])],
                   groups |-> [i \in 1..Len(x.gp[g].groups) |->
                                  GroupToJSON(x, x.gp[g].groups[i])],
                   createdAt |-> ToISOString(x.gp[g].createdAt)])

\* BookmarkGroup.fromJSON(data): allocates the group, its bookmarks and its
\* child groups in x, or throws.
RECURSIVE GroupFromJSON(_, _)
RECURSIVE MapBookmarkFromJSON(_, _, _, _)
RECURSIVE MapGroupFromJSON(_, _, _, _, _)

\* data.map(bookmarkData => Bookmark.fromJSON(bookmarkData)), from index i on
MapBookmarkFromJSON(x, recs, i, acc) ==
    IF i > Len(recs) THEN [ok |-> TRUE, x |-> x, refs |-> acc]
    ELSE With(BookmarkFromJSON(recs[i]), LAMBDA r :
         IF ~r.ok THEN [ok |-> FALSE]
         ELSE MapBookmarkFromJSON(
                 [x EXCEPT !.bk = Alloc(@, x.nextBk, r.obj), !.nextBk = @ + 1],
                 recs, i + 1, Append(acc, x.nextBk)))

\* data.groups.map(groupData => { child = fromJSON(groupData); child.parent = group })
MapGroupFromJSON(x, recs, i, acc, parent) ==
    IF i > Len(recs) THEN [ok |-> TRUE, x |-> x, refs |-> acc]
    ELSE With(GroupFromJSON(x, recs[i]), LAMBDA r :
         IF ~r.ok THEN [ok |-> FALSE]
         ELSE MapGroupFromJSON([r.x EXCEPT !.gp[r.ref].parent = parent],
                               recs, i + 1, Append(acc, r.ref), parent))

\* The group object fromJSON builds before it fills the collections.
GroupOfRecord(data) ==
    [BookmarkGroup(Field(data, "name"), Field(data, "description"), 0, 0, 0, 0)
        EXCEPT !.id = Field(data, "id"),
               !.createdAt = DateParse(Field(data, "createdAt"))]

\* group.groups = data.groups.map(...), after group.bookmarks was set from bs
GroupFromJSONGroups(data, g, bs) ==
    IF ~bs.ok \/ "groups" \notin DOMAIN data THEN [ok |-> FALSE]
    ELSE With(MapGroupFromJSON([bs.x EXCEPT !.gp[g].bookmarks = bs.refs],
                               data.groups, 1, <<>>, g),
              LAMBDA cs : IF ~cs.ok THEN [ok |-> FALSE]
                          ELSE [ok |-> TRUE,
                                x |-> [cs.x EXCEPT !.gp[g].groups = cs.refs],
                                ref |-> g])

GroupFromJSON(x, data) ==
    IF data = null \/ "bookmarks" \notin DOMAIN data THEN [ok |-> FALSE]
    ELSE GroupFromJSONGroups(
            data, x.nextGp,
            MapBookmarkFromJSON([x EXCEPT !.gp = Alloc(@, x.nextGp, GroupOfRecord(data)),
                                          !.nextGp = @ + 1],
                                data.bookmarks, 1, <<>>))

(***************************************************************************)
(* group.openAll() and group.closeAll().  The record r of such a call:     *)
(* group is `this`; arr is the array the for-of loop iterates, the array   *)
(* that this.bookmarks was when the loop began; live tells whether         *)
(* this.bookmarks still is that array (push changes the array in place,    *)
(* filter assigns a new one); own is the content of the array when the     *)
(* call was made; tried lists the bookmarks the loop body was entered for; *)
(* failed those whose open or close failed; left is the number of tabs of  *)
(* the present bookmark still to close; pc is the await the call is        *)
(* suspended in; mutated tells whether a manager operation changed the     *)
(* forest while the call was suspended.                                    *)
(***************************************************************************)
NotRunning ==
    [op |-> "none", group |-> 0, arr |-> <<>>, live |-> FALSE, own |-> <<>>,
     tried |-> <<>>, failed |-> <<>>, left |-> 0, pc |-> "idle",
     threw |-> FALSE, mutated |-> FALSE]

\* The call op on group g, made in execution state x, before its loop begins.
Called(x, op, g) ==
    [NotRunning EXCEPT !.op = op, !.group = g, !.arr = x.gp[g].bookmarks,
                       !.live = TRUE, !.own = x.gp[g].bookmarks, !.pc = "called"]

\* The call is suspended in an await.
Suspended(r) == r.pc \in {"openTextDocument", "showTextDocument", "close"}

\* for (const bookmark of this.bookmarks) { await bookmark.open(); }: the
\* iterator's next step, which enters Bookmark.open for the next element of
\* the array or ends the call.
OpenAllNext(r) ==
    IF Len(r.tried) < Len(r.arr)
    THEN [r EXCEPT !.tried = Append(@, r.arr[Len(@) + 1]), !.pc = "openTextDocument"]
    ELSE [r EXCEPT !.pc = "done"]

\* An open whose failure leaves Bookmark.open and openAll as an exception.
BookmarkOpenRethrows(r) ==
    [r EXCEPT !.failed = Append(@, r.tried[Len(r.tried)]), !.threw = TRUE, !.pc = "done"]

\* The catch block of Bookmark.open: the failure is shown and logged, open
\* returns undefined and the loop of openAll goes on.
BookmarkOpenCaught(r) ==
    OpenAllNext([r EXCEPT !.failed = Append(@, r.tried[Len(r.tried)])])

\* The loop of closeAll from its present position: the next skip bookmarks
\* have no tab open, so the loop body runs for them without an await; the
\* bookmark after them, if there is one, has n tabs open and the call is
\* suspended in the close of the first.
CloseAllNext(r, skip, n) ==
    With(Len(r.tried) + skip, LAMBDA k :
        IF k < Len(r.arr)
        THEN [r EXCEPT !.tried = @ \o SubSeq(r.arr, Len(@) + 1, k + 1),
                       !.left = n, !.pc = "close"]
        ELSE [r EXCEPT !.tried = @ \o SubSeq(r.arr, Len(@) + 1, Len(r.arr)),
                       !.left = 0, !.pc = "done"])

\* A close whose failure leaves closeAll as an exception.
CloseRethrows(r, skip, n) ==
    [r EXCEPT !.failed = Append(@, r.tried[Len(r.tried)]), !.threw = TRUE, !.pc = "done"]

\* The catch block of closeAll: the failure is logged and the loop goes on
\* with the next bookmark.
CloseCaught(r, skip, n) ==
    CloseAllNext([r EXCEPT !.failed = Append(@, r.tried[Len(r.tried)])], skip, n)

\* await vscode.window.tabGroups.close(tab) returned: the next tab of the
\* bookmark, or the next bookmark.
CloseDone(r, skip, n) ==
    IF r.left > 1 THEN [r EXCEPT !.left = @ - 1] ELSE CloseAllNext(r, skip, n)

(***************************************************************************)
(* BookmarkManager: queries.                                               *)
(***************************************************************************)
\* getAllGroupsRecursive(group)
RECURSIVE GetAllGroupsRecursive(_, _)
RECURSIVE ConcatAllGroups(_, _, _)
ConcatAllGroups(x, gs, i) ==
    IF i > Len(gs) THEN <<>>
    ELSE GetAllGroupsRecursive(x, gs[i]) \o ConcatAllGroups(x, gs, i + 1)
GetAllGroupsRecursive(x, g) ==
    x.gp[g].groups \o ConcatAllGroups(x, x.gp[g].groups, 1)

\* The groups of the list gs from index i on in pre-order: each group, then
\* the pre-order listing of its children, then its later siblings.
RECURSIVE PreOrderOf(_, _, _)
PreOrderOf(x, gs, i) ==
    IF i > Len(gs) THEN <<>>
    ELSE <<gs[i]>> \o PreOrderOf(x, x.gp[gs[i]].groups, 1) \o PreOrderOf(x, gs, i + 1)

\* A listing of all the groups in pre-order.
GetAllGroupsPreOrder(x) == PreOrderOf(x, x.groups, 1)

\* getAllGroups()
GetAllGroups(x) == x.groups \o ConcatAllGroups(x, x.groups, 1)

\* A listing that takes from each group all the bookmarks below it.
ConcatDeepBookmarks(x, gs, i) == ConcatAllBookmarks(x, gs, i)

\* getAllBookmarks()
RECURSIVE ConcatOwnBookmarks(_, _, _)
ConcatOwnBookmarks(x, gs, i) ==
    IF i > Len(gs) THEN <<>>
    ELSE x.gp[gs[i]].bookmarks \o ConcatOwnBookmarks(x, gs, i + 1)
GetAllBookmarks(x) == x.bookmarks \o ConcatOwnBookmarks(x, GetAllGroups(x), 1)

\* arr.find(pred) over a sequence of addresses: the first hit, 0 for undefined
Find(arr, Pred(_)) ==
    IF \E i \in 1..Len(arr) : Pred(arr[i])
    THEN arr[CHOOSE i \in 1..Len(arr) : Pred(arr[i]) /\ \A j \in 1..(i - 1) : ~Pred(arr[j])]
    ELSE 0

\* findBookmarkById(id)
FindBookmarkById(x, id) ==
    LET inRoot == Find(x.bookmarks, LAMBDA a : x.bk[a].id = id)
        all == GetAllGroups(x)
        g == Find(all, LAMBDA a : \E i \in 1..Len(x.gp[a].bookmarks) :
                                      x.bk[x.gp[a].bookmarks[i]].id = id)
    IN  IF inRoot # 0 THEN inRoot
        ELSE IF g = 0 THEN 0
        ELSE Find(x.gp[g].bookmarks, LAMBDA a : x.bk[a].id = id)

\* findGroupByIdRecursive(currentGroup, id)
RECURSIVE FindGroupByIdRecursive(_, _, _)
RECURSIVE FindGroupInList(_, _, _, _)
FindGroupInList(x, gs, i, id) ==
    IF i > Len(gs) THEN 0
    ELSE LET r == FindGroupByIdRecursive(x, gs[i], id) IN
         IF r # 0 THEN r ELSE FindGroupInList(x, gs, i + 1, id)
FindGroupByIdRecursive(x, g, id) ==
    IF x.gp[g].id = id THEN g ELSE FindGroupInList(x, x.gp[g].groups, 1, id)

\* A lookup that searches the root groups only.
FindGroupInRoots(x, id) == Find(x.groups, LAMBDA a : x.gp[a].id = id)

\* findGroupById(id)
FindGroupById(x, id) ==
    LET inRoot == Find(x.groups, LAMBDA a : x.gp[a].id = id)
    IN  IF inRoot # 0 THEN inRoot ELSE FindGroupInList(x, x.groups, 1, id)

\* getBookmarksForFile(uri), isFileBookmarked(uri)
GetBookmarksForFile(x, uri) ==
    SelectSeq(GetAllBookmarks(x), LAMBDA a : UriToString(x.bk[a].uri) = UriToString(uri))
IsFileBookmarked(x, uri) == Len(GetBookmarksForFile(x, uri)) > 0

(***************************************************************************)
(* BookmarkManager: serialization, notification and persistence.           *)
(***************************************************************************)
\* The { bookmarks, groups } object built by exportToJSON and saveState.
ToJSONThrows(x) ==
    \/ \E i \in 1..Len(x.bookmarks) : BookmarkToJSONThrows(x.bk[x.bookmarks[i]])
    \/ \E i \in 1..Len(x.groups) : GroupToJSONThrows(x, x.groups[i])
ToJSON(x) ==
    [bookmarks |-> [i \in 1..Len(x.bookmarks) |-> BookmarkToJSON(x.bk[x.bookmarks[i]])],
     groups |-> [i \in 1..Len(x.groups) |-> GroupToJSON(x, x.groups[i])]]

\* JSON text: the text of a value, or text that is not JSON.
garbage == [garbage |-> TRUE]
JSONStringify(v) == [json |-> v]
JSONParse(text) ==
    IF "json" \in DOMAIN text THEN [ok |-> TRUE, value |-> text.json] ELSE [ok |-> FALSE]

\* exportToJSON()
ExportToJSON(x) == JSONStringify(ToJSON(x))

\* The forest as a value: what an observer that walks the forest sees.
RECURSIVE GroupValue(_, _)
GroupValue(x, g) ==
    [id |-> x.gp[g].id,
     name |-> x.gp[g].name,
     description |-> x.gp[g].description,
     createdAt |-> x.gp[g].createdAt,
     bookmarks |-> [i \in 1..Len(x.gp[g].bookmarks) |-> x.bk[x.gp[g].bookmarks[i]]],
     groups |-> [i \in 1..Len(x.gp[g].groups) |-> GroupValue(x, x.gp[g].groups[i])]]
Forest(x) ==
    [bookmarks |-> [i \in 1..Len(x.bookmarks) |-> x.bk[x.bookmarks[i]]],
     groups |-> [i \in 1..Len(x.groups) |-> GroupValue(x, x.groups[i])]]

\* this._onDidChangeData.fire(): the listeners run synchronously and see the
\* forest and the store as they are now.
Fire(x) ==
    [x EXCEPT !.trace = Append(@, [ev |-> "fire", forest |-> Forest(x), store |-> x.store])]

\* saveState(): toJSON() of every root, then globalState.update(key, data)
SaveState(x) ==
    IF ToJSONThrows(x)
    THEN [x EXCEPT !.threw = TRUE,
                   !.trace = Append(@, [ev |-> "throw", forest |-> Forest(x), store |-> x.store])]
    ELSE With(ToJSON(x), LAMBDA data :
              [x EXCEPT !.store = data,
                        !.trace = Append(@, [ev |-> "save", forest |-> Forest(x), store |-> data])])

(***************************************************************************)
(* BookmarkManager: mutating operations.  Each returns the execution state *)
(* after the call and what the call returned (or that it threw).           *)
(***************************************************************************)
RetBool(b) == [kind |-> "bool", v |-> b]
RetRef(a) == [kind |-> "ref", ref |-> a]
RetList(arr) == [kind |-> "list", v |-> arr]
RetThrew == [kind |-> "threw"]

\* The call ends in state x, returning ret unless an exception is on its way.
Outcome(x, ret) == [x |-> x, ret |-> IF x.threw THEN RetThrew ELSE ret]

\* The other order: saveState(), then fire().
SaveAndFire(x) == Fire(SaveState(x))

\* The tail shared by the mutating operations: fire(), then saveState().
FireAndSave(x) == SaveState(Fire(x))

\* The branch of addBookmark that places bookmark b; group 0 is undefined.
PlaceBookmark(x, b, group) ==
    IF group # 0
    THEN GroupAddBookmark(x, group, b)
    ELSE [x EXCEPT !.bookmarks = Append(@, b)]

\* addBookmark(uri, name, description, groupId)
ManagerAddBookmark(x, uri, name, description, groupId, now, rnd, created) ==
    Outcome(FireAndSave(PlaceBookmark(
                [x EXCEPT !.bk = Alloc(@, x.nextBk,
                                       Bookmark(uri, name, description, now, rnd, created)),
                          !.nextBk = @ + 1],
                x.nextBk,
                IF Falsy(groupId) THEN 0 ELSE FindGroupById(x, groupId))),
            RetRef(x.nextBk))

\* The loop of removeBookmark over getAllGroups(): g is the first group whose
\* removeBookmark(id) returns true, 0 when there is none.
RemoveBookmarkInGroups(x, id, g) ==
    IF g = 0 THEN Outcome(x, RetBool(FALSE))
    ELSE Outcome(FireAndSave(GroupRemoveBookmark(x, g, id)), RetBool(TRUE))

\* removeBookmark(id)
ManagerRemoveBookmark(x, id) ==
    IF \E i \in 1..Len(x.bookmarks) : x.bk[x.bookmarks[i]].id = id
    THEN Outcome(FireAndSave([x EXCEPT !.bookmarks = SelectSeq(@, LAMBDA a : x.bk[a].id # id)]),
                 RetBool(TRUE))
    ELSE RemoveBookmarkInGroups(x, id,
            Find(GetAllGroups(x), LAMBDA a : GroupHasBookmark(x, a, id)))

\* A createGroup that also pushes a child group onto the root groups.
PlaceGroupAlsoAtRoot(x, g, parentGroup) ==
    IF parentGroup # 0
    THEN With(GroupAddGroup(x, parentGroup, g), LAMBDA y : [y EXCEPT !.groups = Append(@, g)])
    ELSE [x EXCEPT !.groups = Append(@, g)]

\* The branch of createGroup that places group g; parentGroup 0 is undefined.
PlaceGroup(x, g, parentGroup) ==
    IF parentGroup # 0
    THEN GroupAddGroup(x, parentGroup, g)
    ELSE [x EXCEPT !.groups = Append(@, g)]

\* createGroup(name, description, parentId)
ManagerCreateGroup(x, name, description, parentId, now, rnd, created) ==
    Outcome(FireAndSave(PlaceGroup(
                [x EXCEPT !.gp = Alloc(@, x.nextGp,
                                       BookmarkGroup(name, description, 0, now, rnd, created)),
                          !.nextGp = @ + 1],
                x.nextGp,
                IF Falsy(parentId) THEN 0 ELSE FindGroupById(x, parentId))),
            RetRef(x.nextGp))

\* The loop of removeGroup over getAllGroups(): g is the first group whose
\* removeGroup(id) returns true, 0 when there is none.
RemoveGroupInGroups(x, id, g) ==
    IF g = 0 THEN Outcome(x, RetBool(FALSE))
    ELSE Outcome(FireAndSave(GroupRemoveGroup(x, g, id)), RetBool(TRUE))

\* removeGroup(id)
ManagerRemoveGroup(x, id) ==
    IF \E i \in 1..Len(x.groups) : x.gp[x.groups[i]].id = id
    THEN Outcome(FireAndSave([x EXCEPT !.groups = SelectSeq(@, LAMBDA a : x.gp[a].id # id)]),
                 RetBool(TRUE))
    ELSE RemoveGroupInGroups(x, id,
            Find(GetAllGroups(x), LAMBDA a : GroupHasGroup(x, a, id)))

\* The body of updateGroup for the group found.
SetGroupFields(x, group, name, description) ==
    [x EXCEPT !.gp[group].name = IF name # undefined THEN name ELSE @,
              !.gp[group].description = IF description # undefined THEN description ELSE @]

\* An updateGroup that notifies and saves whether or not the group was found.
UpdateGroupNotifying(x, group, name, description) ==
    IF group = 0 THEN Outcome(SaveState(Fire(x)), RetBool(FALSE))
    ELSE Outcome(SaveState(Fire(SetGroupFields(x, group, name, description))), RetBool(TRUE))

\* updateGroup once findGroupById(id) returned group (0 is undefined)
UpdateGroupFound(x, group, name, description) ==
    IF group = 0 THEN Outcome(x, RetBool(FALSE))
    ELSE Outcome(FireAndSave(SetGroupFields(x, group, name, description)), RetBool(TRUE))

\* updateGroup(id, name, description)
ManagerUpdateGroup(x, id, name, description) ==
    UpdateGroupFound(x, FindGroupById(x, id), name, description)

\* moveBookmarkToGroup after this.removeBookmark(bookmarkId) returned r
MoveAfterRemove(r, bookmark, targetGroup) ==
    IF r.x.threw THEN r
    ELSE Outcome(FireAndSave(GroupAddBookmark(r.x, targetGroup, bookmark)), RetBool(TRUE))

MoveFound(x, bookmarkId, bookmark, targetGroup) ==
    IF bookmark = 0 \/ targetGroup = 0 THEN Outcome(x, RetBool(FALSE))
    ELSE MoveAfterRemove(ManagerRemoveBookmark(x, bookmarkId), bookmark, targetGroup)

\* moveBookmarkToGroup(bookmarkId, targetGroupId)
ManagerMoveBookmarkToGroup(x, bookmarkId, targetGroupId) ==
    MoveFound(x, bookmarkId, FindBookmarkById(x, bookmarkId), FindGroupById(x, targetGroupId))

\* The loops of importFromJSON: one try/catch around each record.
RECURSIVE ImportBookmarks(_, _, _)
ImportBookmarks(x, recs, i) ==
    IF i > Len(recs) THEN x
    ELSE With(BookmarkFromJSON(recs[i]), LAMBDA r :
         IF ~r.ok THEN ImportBookmarks(x, recs, i + 1)
         ELSE ImportBookmarks([x EXCEPT !.bk = Alloc(@, x.nextBk, r.obj),
                                        !.nextBk = @ + 1,
                                        !.bookmarks = Append(@, x.nextBk)],
                              recs, i + 1))

RECURSIVE ImportGroups(_, _, _)
ImportGroups(x, recs, i) ==
    IF i > Len(recs) THEN x
    ELSE With(GroupFromJSON(x, recs[i]), LAMBDA r :
         IF ~r.ok THEN ImportGroups(x, recs, i + 1)
         ELSE ImportGroups([r.x EXCEPT !.groups = Append(@, r.ref)], recs, i + 1))

\* if (data.bookmarks && Array.isArray(data.bookmarks)) ...
ImportBookmarksOf(x, data) ==
    IF "bookmarks" \in DOMAIN data THEN ImportBookmarks(x, data.bookmarks, 1) ELSE x
\* if (data.groups && Array.isArray(data.groups)) ...
ImportGroupsOf(x, data) ==
    IF "groups" \in DOMAIN data THEN ImportGroups(x, data.groups, 1) ELSE x

\* An import that discards the forest whatever merge is.
ClearAlways(x, merge) == [x EXCEPT !.bookmarks = <<>>, !.groups = <<>>]

\* if (!merge) { this.bookmarks = []; this.groups = []; }
ClearUnlessMerge(x, merge) ==
    IF merge THEN x ELSE [x EXCEPT !.bookmarks = <<>>, !.groups = <<>>]

\* The end of importFromJSON: the outer catch turns an exception of
\* saveState into the result false.
ImportEnd(x) == [x |-> [x EXCEPT !.threw = FALSE], ret |-> RetBool(~x.threw)]

\* importFromJSON once JSON.parse returned parsed
ImportParsed(x, parsed, merge) ==
    IF ~parsed.ok THEN Outcome(x, RetBool(FALSE))
    ELSE IF parsed.value = null THEN Outcome(ClearUnlessMerge(x, merge), RetBool(FALSE))
    ELSE ImportEnd(FireAndSave(ImportGroupsOf(
             ImportBookmarksOf(ClearUnlessMerge(x, merge), parsed.value), parsed.value)))

\* importFromJSON(jsonData, merge)
ManagerImportFromJSON(x, jsonData, merge) == ImportParsed(x, JSONParse(jsonData), merge)

\* loadState() once the groups were mapped: gs is the outcome of the map
LoadGroupsEnd(x, gs) == IF gs.ok THEN [gs.x EXCEPT !.groups = gs.refs] ELSE x
LoadGroups(x, data) ==
    IF "groups" \in DOMAIN data
    THEN LoadGroupsEnd(x, MapGroupFromJSON(x, data.groups, 1, <<>>, 0))
    ELSE x
\* loadState() once the bookmarks were mapped: bs is the outcome of the map
LoadBookmarksEnd(x, data, bs) ==
    IF bs.ok THEN LoadGroups([bs.x EXCEPT !.bookmarks = bs.refs], data) ELSE x

\* loadState(), run by the constructor on the empty forest
LoadState(x) ==
    IF x.store = absent \/ x.store = null THEN x
    ELSE IF "bookmarks" \in DOMAIN x.store
         THEN LoadBookmarksEnd(x, x.store, MapBookmarkFromJSON(x, x.store.bookmarks, 1, <<>>))
         ELSE LoadGroups(x, x.store)

(***************************************************************************)
(* Inputs.                                                                 *)
(***************************************************************************)
\* Locators handed to addBookmark: the Uri of an open document.
UriA == UriParse(<<"file", ":", "/", "/", "/", "a">>).uri
UriB == UriParse(<<"file", ":", "/", "/", "/", "d", "/", "b", " ", "c">>).uri

\* Locators handed to isFileBookmarked: the Uri of the active editor.
UriOfB == UriParse(<<"file", ":", "/", "/", "/", "b">>).uri
Locators == {UriA, UriOfB}

\* (uri, name, description) of an addBookmark call.
BookmarkArgs ==
    {[uri |-> UriA, name |-> undefined, description |-> undefined],
     [uri |-> UriB, name |-> <<"n">>, description |-> <<"d">>]}

\* (name, description) of a createGroup call.
GroupArgs ==
    {[name |-> <<"g">>, description |-> undefined],
     [name |-> <<"h">>, description |-> <<"d">>]}

\* (name, description) of an updateGroup call: a rename, a new description.
UpdateArgs ==
    {[name |-> <<"h">>, description |-> undefined],
     [name |-> undefined, description |-> <<>>]}

\* An id that no object of the forest has.
NoSuchId == <<"nosuch">>

\* Records of imported and stored documents.
RecB == [id |-> <<"bookmark", 0, 0>>, uri |-> <<"file", ":", "/", "/", "/", "b">>,
         name |-> <<"B">>, description |-> <<>>, createdAt |-> ToISOString(0)]
RecNoUri == [id |-> <<"bookmark", 1, 1>>, name |-> <<"U">>, description |-> <<>>,
             createdAt |-> ToISOString(0)]
RecBadUri == [id |-> <<"bookmark", 1, 0>>, uri |-> <<"file", ":", "/", "/", "/", "/", "b">>,
              name |-> <<"X">>, description |-> <<>>, createdAt |-> ToISOString(0)]
RecNoDate == [id |-> <<"bookmark", 0, 1>>, uri |-> <<"file", ":", "/", "/", "/", "b">>,
              name |-> <<"D">>, description |-> <<>>]
RecC == [id |-> <<"bookmark", 2, 0>>, uri |-> <<"file", ":", "/", "/", "/", "c">>,
         name |-> <<"C">>, description |-> <<>>, createdAt |-> ToISOString(0)]
RecE == [id |-> <<"bookmark", 2, 1>>, uri |-> <<"file", ":", "/", "/", "/", "e">>,
         name |-> <<"E">>, description |-> <<>>, createdAt |-> ToISOString(0)]
RecG(bs, gs) == [id |-> <<"group", 0, 0>>, name |-> <<"G">>, description |-> <<>>,
                 bookmarks |-> bs, groups |-> gs, createdAt |-> ToISOString(0)]
RecH(bs, gs) == [id |-> <<"group", 0, 1>>, name |-> <<"H">>, description |-> <<>>,
                 bookmarks |-> bs, groups |-> gs, createdAt |-> ToISOString(0)]
RecK(bs, gs) == [id |-> <<"group", 2, 0>>, name |-> <<"K">>, description |-> <<>>,
                 bookmarks |-> bs, groups |-> gs, createdAt |-> ToISOString(0)]
RecGNoGroups == [id |-> <<"group", 1, 1>>, name |-> <<"M">>, description |-> <<>>,
                 bookmarks |-> <<>>, createdAt |-> ToISOString(0)]

\* The JSON texts given to importFromJSON, besides the manager's own export.
ImportTexts ==
    {garbage,
     JSONStringify(null),
     JSONStringify([bookmarks |-> <<RecB, RecNoUri>>]),
     JSONStringify([bookmarks |-> <<RecBadUri, RecB>>, groups |-> <<RecGNoGroups>>]),
     JSONStringify([bookmarks |-> <<RecNoDate>>, groups |-> <<>>]),
     JSONStringify([bookmarks |-> <<>>, groups |-> <<RecG(<<RecB>>, <<RecH(<<>>, <<>>)>>)>>]),
     JSONStringify([groups |-> <<RecG(<<>>, <<RecH(<<null>>, <<>>)>>), RecH(<<>>, <<>>)>>])}

\* The documents the store may hold when the extension starts.
StoredDocs ==
    {absent,
     [bookmarks |-> <<RecB>>, groups |-> <<RecG(<<>>, <<>>)>>],
     [bookmarks |-> <<RecB>>, groups |-> <<null>>],
     [bookmarks |-> <<>>,
      groups |-> <<RecG(<<RecB>>, <<RecH(<<RecC>>, <<>>), RecK(<<RecE>>, <<>>)>>)>>]}

\* Number of Bookmark and BookmarkGroup records in a list of records.
RECURSIVE CountBookmarks(_)
CountBookmarks(recs) ==
    IF recs = <<>> THEN 0
    ELSE LET d == Head(recs) IN
         (IF d = null THEN 0
          ELSE IF "groups" \in DOMAIN d \/ "bookmarks" \in DOMAIN d
               THEN (IF "bookmarks" \in DOMAIN d THEN Len(d.bookmarks) ELSE 0)
                    + (IF "groups" \in DOMAIN d THEN CountBookmarks(d.groups) ELSE 0)
               ELSE 0)
         + CountBookmarks(Tail(recs))

RECURSIVE CountGroups(_)
CountGroups(recs) ==
    IF recs = <<>> THEN 0
    ELSE LET d == Head(recs) IN
         1 + (IF d # null /\ "groups" \in DOMAIN d THEN CountGroups(d.groups) ELSE 0)
         + CountGroups(Tail(recs))

\* The allocations a document can need fit the heaps.
Fits(x, data) ==
    /\ x.nextBk - 1 + (IF "bookmarks" \in DOMAIN data THEN Len(data.bookmarks) ELSE 0)
                    + (IF "groups" \in DOMAIN data THEN CountBookmarks(data.groups) ELSE 0)
          <= MaxBkObj
    /\ x.nextGp - 1 + (IF "groups" \in DOMAIN data THEN CountGroups(data.groups) ELSE 0)
          <= MaxGpObj

(***************************************************************************)
(* The state machine.                                                      *)
(***************************************************************************)
\* The execution state a call starts from.
X == [bookmarks |-> bookmarks, groups |-> groups, bk |-> bk, gp |-> gp,
      nextBk |-> nextBk, nextGp |-> nextGp, store |-> store,
      trace |-> <<>>, threw |-> FALSE]

Range(seq) == {seq[i] : i \in 1..Len(seq)}

\* Objects no longer reachable from the manager are garbage.
Collect(x) ==
    LET liveG == Range(GetAllGroups(x))
        liveB == Range(GetAllBookmarks(x))
    IN  [x EXCEPT !.gp = [a \in liveG |-> x.gp[a]],
                  !.bk = [a \in liveB |-> x.bk[a]]]

\* The ids in use, and one that is not.
BookmarkIds == {bk[a].id : a \in DOMAIN bk} \cup {NoSuchId}
GroupIds == {gp[a].id : a \in DOMAIN gp} \cup {NoSuchId}

\* removeBookmark(id) on the forest x assigns a new array to the bookmarks of
\* group g: the root holds no bookmark with the id, and g comes in
\* getAllGroups() no later than the first group that holds one.
RemoveBookmarkReplaces(x, id, g) ==
    /\ ~\E i \in 1..Len(x.bookmarks) : x.bk[x.bookmarks[i]].id = id
    /\ With(GetAllGroups(x), LAMBDA all :
            \E k \in 1..Len(all) :
                /\ all[k] = g
                /\ \A j \in 1..(k - 1) : ~GroupHasBookmark(x, all[j], id))

\* The manager operation op(args) on the forest x assigns a new array to the
\* bookmarks of group g.
Replaces(x, op, args, g) ==
    \/ op = "removeBookmark" /\ RemoveBookmarkReplaces(x, args.id, g)
    \/ /\ op = "moveBookmarkToGroup"
       /\ FindBookmarkById(x, args.bookmarkId) # 0
       /\ FindGroupById(x, args.targetGroupId) # 0
       /\ RemoveBookmarkReplaces(x, args.bookmarkId, g)

\* What the manager operation op(args), which took the forest from x to y,
\* did to the array that the suspended call r iterates.
RunningAfter(r, x, y, op, args) ==
    IF ~Suspended(r) THEN r
    ELSE IF ~r.live \/ r.group \notin DOMAIN y.gp
         THEN [r EXCEPT !.mutated = @ \/ Forest(y) # Forest(x)]
    ELSE IF Replaces(x, op, args, r.group)
         THEN [r EXCEPT !.live = FALSE, !.mutated = @ \/ Forest(y) # Forest(x)]
    ELSE [r EXCEPT !.arr = y.gp[r.group].bookmarks,
                   !.mutated = @ \/ Forest(y) # Forest(x)]

\* The call returns ret and leaves the execution state y.  The variable last
\* records the call for its observers: what was called, what it returned,
\* what the listeners and the store saw while it ran (trace), and the state
\* it started from (pre).
Commit(y, ret, op, args) ==
    /\ calls' = calls + 1
    /\ bookmarks' = y.bookmarks
    /\ groups' = y.groups
    /\ bk' = y.bk
    /\ gp' = y.gp
    /\ nextBk' = y.nextBk
    /\ nextGp' = y.nextGp
    /\ store' = y.store
    /\ last' = [op |-> op, args |-> args, ret |-> ret, trace |-> y.trace, pre |-> X]
    /\ running' = RunningAfter(running, X, y, op, args)
    /\ UNCHANGED clock

\* The call returns: its effects become the state.
Return(r, op, args) == Commit(Collect(r.x), r.ret, op, args)

EmptyForest(st) ==
    [bookmarks |-> <<>>, groups |-> <<>>, bk |-> <<>>, gp |-> <<>>,
     nextBk |-> 1, nextGp |-> 1, store |-> st, trace |-> <<>>, threw |-> FALSE]

\* The state the constructor leaves: y is the forest loadState() built from
\* the stored document st.
Constructed(y, st) ==
    /\ bookmarks = y.bookmarks
    /\ groups = y.groups
    /\ bk = y.bk
    /\ gp = y.gp
    /\ nextBk = y.nextBk
    /\ nextGp = y.nextGp
    /\ store = y.store
    /\ clock = 0
    /\ calls = 0
    /\ running = NotRunning
    /\ last = [op |-> "constructor", args |-> <<>>, ret |-> [kind |-> "void"],
               trace |-> <<>>, pre |-> EmptyForest(st)]

\* new BookmarkManager(context)
Init == \E st \in StoredDocs : Constructed(Collect(LoadState(EmptyForest(st))), st)

\* A millisecond passes.
Tick ==
    /\ clock < MaxClock
    /\ clock' = clock + 1
    /\ UNCHANGED <<bookmarks, groups, bk, gp, nextBk, nextGp, store, last, calls, running>>

AddBookmark ==
    \E a \in BookmarkArgs, groupId \in {undefined} \cup GroupIds, rnd \in 0..(RandRange - 1) :
        /\ calls < MaxCalls
        /\ nextBk <= MaxBkObj
        /\ Return(ManagerAddBookmark(X, a.uri, a.name, a.description, groupId, clock, rnd, clock),
                  "addBookmark", [uri |-> a.uri, name |-> a.name, description |-> a.description,
                                  groupId |-> groupId])

RemoveBookmark ==
    \E id \in BookmarkIds :
        /\ calls < MaxCalls
        /\ Return(ManagerRemoveBookmark(X, id), "removeBookmark", [id |-> id])

CreateGroup ==
    \E a \in GroupArgs, parentId \in {undefined} \cup GroupIds, rnd \in 0..(RandRange - 1) :
        /\ calls < MaxCalls
        /\ nextGp <= MaxGpObj
        /\ Return(ManagerCreateGroup(X, a.name, a.description, parentId, clock, rnd, clock),
                  "createGroup", [name |-> a.name, description |-> a.description,
                                  parentId |-> parentId])

RemoveGroup ==
    \E id \in GroupIds :
        /\ calls < MaxCalls
        /\ Return(ManagerRemoveGroup(X, id), "removeGroup", [id |-> id])

UpdateGroup ==
    \E id \in GroupIds, a \in UpdateArgs :
        /\ calls < MaxCalls
        /\ Return(ManagerUpdateGroup(X, id, a.name, a.description),
                  "updateGroup", [id |-> id, name |-> a.name, description |-> a.description])

MoveBookmarkToGroup ==
    \E bookmarkId \in BookmarkIds, targetGroupId \in GroupIds :
        /\ calls < MaxCalls
        /\ Return(ManagerMoveBookmarkToGroup(X, bookmarkId, targetGroupId),
                  "moveBookmarkToGroup",
                  [bookmarkId |-> bookmarkId, targetGroupId |-> targetGroupId])

ImportFromJSON ==
    \E jsonData \in ImportTexts \cup (IF ToJSONThrows(X) THEN {} ELSE {ExportToJSON(X)}),
       merge \in BOOLEAN :
        /\ calls < MaxCalls
        /\ JSONParse(jsonData).ok /\ jsonData.json # null => Fits(X, jsonData.json)
        /\ Return(ManagerImportFromJSON(X, jsonData, merge),
                  "importFromJSON", [jsonData |-> jsonData, merge |-> merge])

\* The queries: they return what they compute and leave the manager alone.
GetAllGroupsCall ==
    /\ calls < MaxCalls
    /\ Commit(X, RetList(GetAllGroups(X)), "getAllGroups", <<>>)

GetAllBookmarksCall ==
    /\ calls < MaxCalls
    /\ Commit(X, RetList(GetAllBookmarks(X)), "getAllBookmarks", <<>>)

GroupGetAllBookmarksCall ==
    \E g \in DOMAIN gp :
        /\ calls < MaxCalls
        /\ Commit(X, RetList(GroupGetAllBookmarks(X, g)), "group.getAllBookmarks", [group |-> g])

FindGroupByIdCall ==
    \E id \in GroupIds :
        /\ calls < MaxCalls
        /\ Commit(X, RetRef(FindGroupById(X, id)), "findGroupById", [id |-> id])

FindBookmarkByIdCall ==
    \E id \in BookmarkIds :
        /\ calls < MaxCalls
        /\ Commit(X, RetRef(FindBookmarkById(X, id)), "findBookmarkById", [id |-> id])

GetBookmarksForFileCall ==
    \E uri \in Locators :
        /\ calls < MaxCalls
        /\ Commit(X, RetList(GetBookmarksForFile(X, uri)), "getBookmarksForFile", [uri |-> uri])

IsFileBookmarkedCall ==
    \E uri \in Locators :
        /\ calls < MaxCalls
        /\ Commit(X, RetBool(IsFileBookmarked(X, uri)), "isFileBookmarked", [uri |-> uri])

Next ==
    \/ Tick
    \/ AddBookmark
    \/ RemoveBookmark
    \/ CreateGroup
    \/ RemoveGroup
    \/ UpdateGroup
    \/ MoveBookmarkToGroup
    \/ ImportFromJSON
    \/ GetAllGroupsCall
    \/ GetAllBookmarksCall
    \/ GroupGetAllBookmarksCall
    \/ FindGroupByIdCall
    \/ FindBookmarkByIdCall
    \/ GetBookmarksForFileCall
    \/ IsFileBookmarkedCall

Spec == Init /\ [][Next]_vars

\* openGroupCommand and closeGroupCommand, and the editor calls they await.
\* The commands run on the event loop: while one is suspended in an await
\* the others run.
OpenAllStart ==
    \E g \in DOMAIN gp :
        /\ calls < MaxCalls
        /\ ~Suspended(running)
        /\ running' = OpenAllNext(Called(X, "openAll", g))
        /\ calls' = calls + 1
        /\ UNCHANGED <<bookmarks, groups, bk, gp, nextBk, nextGp, store, clock, last>>

\* await vscode.workspace.openTextDocument(this.uri) returns or fails
OpenTextDocumentReturns ==
    \E ok \in BOOLEAN :
        /\ running.pc = "openTextDocument"
        /\ running' = IF ok THEN [running EXCEPT !.pc = "showTextDocument"]
                      ELSE BookmarkOpenCaught(running)
        /\ UNCHANGED <<bookmarks, groups, bk, gp, nextBk, nextGp, store, clock, last, calls>>

\* await vscode.window.showTextDocument(document) returns or fails
ShowTextDocumentReturns ==
    \E ok \in BOOLEAN :
        /\ running.pc = "showTextDocument"
        /\ running' = IF ok THEN OpenAllNext(running) ELSE BookmarkOpenCaught(running)
        /\ UNCHANGED <<bookmarks, groups, bk, gp, nextBk, nextGp, store, clock, last, calls>>

CloseAllStart ==
    \E g \in DOMAIN gp : \E skip \in 0..Len(gp[g].bookmarks), n \in 1..MaxTabs :
        /\ calls < MaxCalls
        /\ ~Suspended(running)
        /\ running' = CloseAllNext(Called(X, "closeAll", g), skip, n)
        /\ calls' = calls + 1
        /\ UNCHANGED <<bookmarks, groups, bk, gp, nextBk, nextGp, store, clock, last>>

\* await vscode.window.tabGroups.close(tab) returns or fails
CloseReturns ==
    \E ok \in BOOLEAN, skip \in 0..MaxBkObj, n \in 1..MaxTabs :
        /\ running.pc = "close"
        /\ skip <= Len(running.arr) - Len(running.tried)
        /\ running' = IF ok THEN CloseDone(running, skip, n)
                      ELSE CloseCaught(running, skip, n)
        /\ UNCHANGED <<bookmarks, groups, bk, gp, nextBk, nextGp, store, clock, last, calls>>

\* The manager used while groups are opened and closed.
NextOpen ==
    \/ OpenAllStart
    \/ OpenTextDocumentReturns
    \/ ShowTextDocumentReturns
    \/ CloseAllStart
    \/ CloseReturns
    \/ AddBookmark
    \/ RemoveBookmark
    \/ MoveBookmarkToGroup
    \/ RemoveGroup
    \/ ImportFromJSON
SpecOpen == Init /\ [][NextOpen]_vars

\* The same, with an editor that answers every call: an await of
\* openAll or closeAll does not stay pending for ever.
SpecOpenFair ==
    /\ SpecOpen
    /\ WF_vars(OpenTextDocumentReturns)
    /\ WF_vars(ShowTextDocumentReturns)
    /\ WF_vars(CloseReturns)

\* A manager constructed on an empty store and used only through its two
\* factory operations.
InitCreate == Constructed(Collect(LoadState(EmptyForest(absent))), absent)
NextCreate ==
    \/ Tick
    \/ AddBookmark
    \/ CreateGroup
SpecCreate == InitCreate /\ [][NextCreate]_vars

(***************************************************************************)
(* Identifiers.                                                            *)
(***************************************************************************)
\* No two entries of the listing arr of objects of heap share an id.
DistinctIds(heap, arr) ==
    \A i, j \in 1..Len(arr) : i # j => heap[arr[i]].id # heap[arr[j]].id

\* C1: whatever sequence of addBookmark and createGroup calls ran, the ids of
\* the bookmarks produced are pairwise distinct and the ids of the groups
\* produced are pairwise distinct.  Two calls in the same millisecond that
\* draw the same random suffix produce the same id.
C1_CreatedIdsDistinct ==
    /\ \A a, b \in DOMAIN bk : a # b => bk[a].id # bk[b].id
    /\ \A a, b \in DOMAIN gp : a # b => gp[a].id # gp[b].id

\* C2: in every reachable state no two bookmarks of the forest share an id
\* and no two groups of the forest share an id.  importFromJSON with
\* merge=true of the manager's own export appends a copy of every root.
C2_ForestIdsUnique ==
    /\ DistinctIds(bk, GetAllBookmarks(X))
    /\ DistinctIds(gp, GetAllGroups(X))

(***************************************************************************)
(* Round trip.                                                             *)
(***************************************************************************)
\* Every child group of the forest x points at the group that holds it.
ParentsAttached(x) ==
    \A i \in 1..Len(GetAllGroups(x)) :
        \A k \in 1..Len(x.gp[GetAllGroups(x)[i]].groups) :
            x.gp[x.gp[GetAllGroups(x)[i]].groups[k]].parent = GetAllGroups(x)[i]

\* r is the outcome of importing the export of x with merge=false
RoundTripOutcome(x, r) ==
    /\ r.ret = RetBool(TRUE)
    /\ Forest(r.x) = Forest(x)
    /\ ParentsAttached(r.x)

\* exportToJSON() then importFromJSON(doc, false) reproduces the forest x
RoundTrip(x) ==
    /\ ~ToJSONThrows(x)
    /\ RoundTripOutcome(x, ManagerImportFromJSON(x, ExportToJSON(x), FALSE))

\* C3: for every reachable forest, exportToJSON followed by
\* importFromJSON(doc, merge=false) yields an equivalent forest: the same
\* ids, names, descriptions, timestamps, nesting and order, every child
\* pointing at its reconstructed parent.  A bookmark whose createdAt is an
\* Invalid Date cannot be exported at all.
C3_RoundTrip == RoundTrip(X)

\* Every date of the forest x is a valid date.
DatesValid(x) ==
    /\ \A a \in DOMAIN x.bk : x.bk[a].createdAt # InvalidDate
    /\ \A a \in DOMAIN x.gp : x.gp[a].createdAt # InvalidDate

\* The round trip of a forest without an Invalid Date.
RoundTripOfValidDates == DatesValid(X) => RoundTrip(X)

(***************************************************************************)
(* Events and persistence.                                                 *)
(***************************************************************************)
Mutating ==
    {"addBookmark", "removeBookmark", "createGroup", "removeGroup", "updateGroup",
     "moveBookmarkToGroup", "importFromJSON"}

\* The call recorded in last succeeded: it returned an entity or true.
Succeeded == last.ret.kind = "ref" \/ last.ret = RetBool(TRUE)

\* The positions of the trace at which ev happened.
Events(trace, ev) == {i \in 1..Len(trace) : trace[i].ev = ev}

\* The document the store held just before position i of the call's trace.
StoreBefore(i) == IF i = 1 THEN last.pre.store ELSE last.trace[i - 1].store

\* C4 as stated: the change event is fired only after the mutation and the
\* persistence write have completed, so that an observer receiving the event
\* finds in the store the serialization of the forest it sees.
C4_EventAfterPersistence ==
    last.op \in Mutating =>
        \A i \in Events(last.trace, "fire") :
            /\ i > 1
            /\ last.trace[i - 1].ev = "save"
            /\ last.trace[i - 1].forest = last.trace[i].forest
            /\ last.trace[i].store = last.trace[i - 1].store

\* C4 amended: the change event is fired after the in-memory mutation and
\* before the persistence write.  When an observer receives the event the
\* store still holds the document it held before, and what follows the event
\* at once is saveState() of the very forest the observer saw.
C4_EventBeforePersistence ==
    last.op \in Mutating =>
        \A i \in Events(last.trace, "fire") :
            /\ last.trace[i].store = StoreBefore(i)
            /\ i < Len(last.trace)
            /\ last.trace[i + 1].ev \in {"save", "throw"}
            /\ last.trace[i + 1].forest = last.trace[i].forest

\* An observer received the event while the store held a document that the
\* write after the event then replaced by another.
C4_StaleStoreAtEvent ==
    /\ last.op \in Mutating
    /\ \E i \in Events(last.trace, "fire") :
           /\ i < Len(last.trace)
           /\ last.trace[i + 1].ev = "save"
           /\ last.trace[i + 1].store # last.trace[i].store

\* C5: every successful mutating call fires exactly one change event and
\* performs exactly one persistence write.  moveBookmarkToGroup runs
\* removeBookmark, which fires and saves, and then fires and saves itself.
C5_OneEventOneWrite ==
    last.op \in Mutating /\ Succeeded =>
        /\ Cardinality(Events(last.trace, "fire")) = 1
        /\ Cardinality(Events(last.trace, "save")) = 1

\* One event and one write for the successful calls other than the move.
OneEventOneWriteUnlessMove ==
    last.op \in Mutating \ {"moveBookmarkToGroup"} /\ Succeeded =>
        /\ Cardinality(Events(last.trace, "fire")) = 1
        /\ Cardinality(Events(last.trace, "save")) = 1

(***************************************************************************)
(* moveBookmarkToGroup.                                                    *)
(***************************************************************************)
\* How many entries of the listing arr of bookmarks have the id.
CountId(x, arr, id) == Cardinality({i \in 1..Len(arr) : x.bk[arr[i]].id = id})

\* In the forest x the bookmark id is held once by the group g and by no
\* other collection.
HeldOnlyBy(x, g, id) ==
    /\ g # 0
    /\ CountId(x, x.gp[g].bookmarks, id) = 1
    /\ CountId(x, x.bookmarks, id) = 0
    /\ \A i \in 1..Len(GetAllGroups(x)) :
           GetAllGroups(x)[i] # g => CountId(x, x.gp[GetAllGroups(x)[i]].bookmarks, id) = 0

\* C6: after moveBookmarkToGroup(bId, gId) returned true, the group gId
\* holds exactly one bookmark with id bId and no other collection of the
\* forest holds one.  When two bookmarks share the id, or two groups share
\* the target id, only the first of each is dealt with.
C6_MovedToTarget ==
    last.op = "moveBookmarkToGroup" /\ last.ret = RetBool(TRUE) =>
        HeldOnlyBy(X, FindGroupById(X, last.args.targetGroupId), last.args.bookmarkId)

\* The move of a forest in which no id is shared.
MovedToTargetWhenIdsUnique ==
    /\ last.op = "moveBookmarkToGroup" /\ last.ret = RetBool(TRUE)
    /\ DistinctIds(last.pre.bk, GetAllBookmarks(last.pre))
    /\ DistinctIds(last.pre.gp, GetAllGroups(last.pre))
    => HeldOnlyBy(X, FindGroupById(X, last.args.targetGroupId), last.args.bookmarkId)

\* C7: moveBookmarkToGroup is atomic for observers: every forest shown to a
\* listener or written to the store during the call is the forest before the
\* move or the forest after it.  The inner removeBookmark fires and saves
\* while the bookmark is in no collection.
C7_MoveAtomic ==
    last.op = "moveBookmarkToGroup" =>
        \A i \in 1..Len(last.trace) :
            \/ last.trace[i].forest = Forest(last.pre)
            \/ last.trace[i].forest = Forest(X)

(***************************************************************************)
(* Ids that do not resolve.                                                *)
(***************************************************************************)
\* The call recorded in last was given an id that resolved to nothing in the
\* forest it started from.
Unresolved ==
    \/ last.op = "removeBookmark" /\ FindBookmarkById(last.pre, last.args.id) = 0
    \/ last.op \in {"removeGroup", "updateGroup"} /\ FindGroupById(last.pre, last.args.id) = 0
    \/ /\ last.op = "moveBookmarkToGroup"
       /\ \/ FindBookmarkById(last.pre, last.args.bookmarkId) = 0
          \/ FindGroupById(last.pre, last.args.targetGroupId) = 0

\* C8: removeBookmark, removeGroup, updateGroup and moveBookmarkToGroup
\* called with an id that does not resolve return false without throwing,
\* leave the forest and the persisted document as they were, and fire no
\* change event.
C8_UnresolvedIdNoEffect ==
    Unresolved =>
        /\ last.ret = RetBool(FALSE)
        /\ X = last.pre
        /\ Forest(X) = Forest(last.pre)
        /\ store = last.pre.store
        /\ last.trace = <<>>

\* moveBookmarkToGroup was called on a forest with groups, with a bookmark id
\* that resolves and a group id that does not, and returned false.
C8_MoveToUnknownGroup ==
    /\ last.op = "moveBookmarkToGroup"
    /\ FindBookmarkById(last.pre, last.args.bookmarkId) # 0
    /\ FindGroupById(last.pre, last.args.targetGroupId) = 0
    /\ Len(last.pre.groups) > 0
    /\ last.ret = RetBool(FALSE)

(***************************************************************************)
(* importFromJSON.                                                         *)
(***************************************************************************)
\* The records the document jsonData lists under the property f.
DocRecords(jsonData, f) ==
    IF JSONParse(jsonData).ok /\ jsonData.json # null /\ f \in DOMAIN jsonData.json
    THEN jsonData.json[f]
    ELSE <<>>

\* The bookmarks Bookmark.fromJSON makes of the records it accepts, in order.
BookmarkValuesOf(ok) == [i \in 1..Len(ok) |-> BookmarkFromJSON(ok[i]).obj]
BookmarkValues(recs) == BookmarkValuesOf(SelectSeq(recs, LAMBDA r : BookmarkFromJSON(r).ok))

\* The groups BookmarkGroup.fromJSON makes of the records it accepts, in order.
GroupValueOf(r) == GroupValue(r.x, r.ref)
GroupValuesOf(ok) ==
    [i \in 1..Len(ok) |-> GroupValueOf(GroupFromJSON(EmptyForest(absent), ok[i]))]
GroupValues(recs) ==
    GroupValuesOf(SelectSeq(recs, LAMBDA r : GroupFromJSON(EmptyForest(absent), r).ok))

\* A well-formed bookmark record: its required fields are present and its
\* locator can be parsed.
WellFormedBookmark(rec) ==
    /\ rec # null
    /\ {"id", "uri", "createdAt"} \subseteq DOMAIN rec
    /\ UriParse(rec.uri).ok

\* A well-formed group record: its required fields are present and every
\* record nested in it is well-formed.
RECURSIVE WellFormedGroup(_)
WellFormedGroup(rec) ==
    /\ rec # null
    /\ {"id", "name", "bookmarks", "groups", "createdAt"} \subseteq DOMAIN rec
    /\ \A i \in 1..Len(rec.bookmarks) : WellFormedBookmark(rec.bookmarks[i])
    /\ \A i \in 1..Len(rec.groups) : WellFormedGroup(rec.groups[i])

\* C9: importFromJSON(doc, false) of a parsable document discards the prior
\* forest: afterwards the root bookmarks and the root groups are exactly the
\* deserialized well-formed records of the document, in document order, and
\* nothing of the prior forest is reachable.  A bookmark record without uri
\* or without createdAt is deserialized and imported all the same.
C9_ImportReplaces ==
    last.op = "importFromJSON" /\ ~last.args.merge /\ JSONParse(last.args.jsonData).ok =>
        /\ Forest(X).bookmarks =
               BookmarkValues(SelectSeq(DocRecords(last.args.jsonData, "bookmarks"),
                                        WellFormedBookmark))
        /\ Forest(X).groups =
               GroupValues(SelectSeq(DocRecords(last.args.jsonData, "groups"),
                                     WellFormedGroup))
        /\ DOMAIN bk \cap DOMAIN last.pre.bk = {}
        /\ DOMAIN gp \cap DOMAIN last.pre.gp = {}

\* The roots after the import are the records fromJSON accepts.
ImportReplacesByAccepted ==
    last.op = "importFromJSON" /\ ~last.args.merge /\ JSONParse(last.args.jsonData).ok =>
        /\ Forest(X).bookmarks = BookmarkValues(DocRecords(last.args.jsonData, "bookmarks"))
        /\ Forest(X).groups = GroupValues(DocRecords(last.args.jsonData, "groups"))
        /\ DOMAIN bk \cap DOMAIN last.pre.bk = {}
        /\ DOMAIN gp \cap DOMAIN last.pre.gp = {}

\* The listing arr starts with the listing old.
StartsWith(arr, old) == Len(arr) >= Len(old) /\ SubSeq(arr, 1, Len(old)) = old

\* What follows the first n entries of arr.
After(arr, n) == SubSeq(arr, n + 1, Len(arr))

\* C10: importFromJSON(doc, true) is additive: the roots present before the
\* call are still the first roots, the same objects in the same order, no
\* object of the prior forest has changed, and what follows them are the
\* imported records in document order.
C10_MergeIsAdditive ==
    last.op = "importFromJSON" /\ last.args.merge =>
        /\ StartsWith(bookmarks, last.pre.bookmarks)
        /\ StartsWith(groups, last.pre.groups)
        /\ \A a \in DOMAIN last.pre.bk : a \in DOMAIN bk /\ bk[a] = last.pre.bk[a]
        /\ \A a \in DOMAIN last.pre.gp : a \in DOMAIN gp /\ gp[a] = last.pre.gp[a]
        /\ After(Forest(X).bookmarks, Len(last.pre.bookmarks)) =
               BookmarkValues(DocRecords(last.args.jsonData, "bookmarks"))
        /\ After(Forest(X).groups, Len(last.pre.groups)) =
               GroupValues(DocRecords(last.args.jsonData, "groups"))

\* A merge import added root bookmarks and root groups to a forest that had
\* both.
C10_MergedIntoForest ==
    /\ last.op = "importFromJSON" /\ last.args.merge
    /\ Len(last.pre.bookmarks) > 0 /\ Len(bookmarks) > Len(last.pre.bookmarks)
    /\ Len(last.pre.groups) > 0 /\ Len(groups) > Len(last.pre.groups)

\* How many of the roots the call found are kept by an import with merge.
KeptRoots(arr, merge) == IF merge THEN Len(arr) ELSE 0

\* C11: importFromJSON of a document with well-formed and malformed records
\* skips each malformed record, imports every well-formed one and returns
\* true.  A bookmark record without uri or without createdAt is imported,
\* and the one without createdAt makes saveState throw, so that the import
\* returns false.
C11_PartialSkip ==
    /\ last.op = "importFromJSON"
    /\ JSONParse(last.args.jsonData).ok
    /\ last.args.jsonData.json # null
    => /\ last.ret = RetBool(TRUE)
       /\ After(Forest(X).bookmarks, KeptRoots(last.pre.bookmarks, last.args.merge)) =
              BookmarkValues(SelectSeq(DocRecords(last.args.jsonData, "bookmarks"),
                                       WellFormedBookmark))
       /\ After(Forest(X).groups, KeptRoots(last.pre.groups, last.args.merge)) =
              GroupValues(SelectSeq(DocRecords(last.args.jsonData, "groups"),
                                    WellFormedGroup))

(***************************************************************************)
(* Restore.                                                                *)
(***************************************************************************)
\* Some root record of the stored document st fails to deserialize.
LoadFails(st) ==
    /\ st # absent
    /\ st # null
    /\ \/ /\ "bookmarks" \in DOMAIN st
          /\ \E i \in 1..Len(st.bookmarks) : ~BookmarkFromJSON(st.bookmarks[i]).ok
       \/ /\ "groups" \in DOMAIN st
          /\ \E i \in 1..Len(st.groups) : ~GroupFromJSON(EmptyForest(absent), st.groups[i]).ok

\* C12: after the constructor ran loadState on a missing document or on one
\* of which some record fails to deserialize, the forest is empty.  The
\* bookmarks are assigned before the groups are mapped, so a failing group
\* record leaves the root bookmarks loaded.
C12_RestoreFailedLeavesEmpty ==
    last.op = "constructor" /\ (last.pre.store = absent \/ LoadFails(last.pre.store)) =>
        bookmarks = <<>> /\ groups = <<>>

(***************************************************************************)
(* removeBookmark and removeGroup.                                         *)
(***************************************************************************)
\* Some entry of the listing arr of objects of heap has the id.
HasId(heap, arr, id) == \E i \in 1..Len(arr) : heap[arr[i]].id = id

\* No id is shared in the forest x and every date of it is valid.
Sound(x) ==
    /\ DistinctIds(x.bk, GetAllBookmarks(x))
    /\ DistinctIds(x.gp, GetAllGroups(x))
    /\ DatesValid(x)

\* C13: removeBookmark(id) of an id that some bookmark of the forest has, at
\* root or in a group at any depth, returns true, and findBookmarkById(id)
\* then returns none.  Of several bookmarks sharing the id only those of the
\* first collection searched are removed.
C13_RemovedBookmarkNotFound ==
    /\ last.op = "removeBookmark"
    /\ HasId(last.pre.bk, GetAllBookmarks(last.pre), last.args.id)
    => /\ last.ret = RetBool(TRUE)
       /\ FindBookmarkById(X, last.args.id) = 0

\* The same for a forest in which no id is shared and every date is valid.
RemovedBookmarkNotFoundWhenSound ==
    /\ last.op = "removeBookmark"
    /\ HasId(last.pre.bk, GetAllBookmarks(last.pre), last.args.id)
    /\ Sound(last.pre)
    => /\ last.ret = RetBool(TRUE)
       /\ FindBookmarkById(X, last.args.id) = 0

\* C14: removeGroup(id) returns true exactly when findGroupById(id) resolved
\* before the call, at whatever depth the group is, and findGroupById(id)
\* then returns none.  Of several groups sharing the id only those of the
\* first collection searched are removed.
C14_RemovedGroupNotFound ==
    last.op = "removeGroup" =>
        /\ last.ret = RetBool(FindGroupById(last.pre, last.args.id) # 0)
        /\ FindGroupById(X, last.args.id) = 0

\* The same for a forest in which no id is shared and every date is valid.
RemovedGroupNotFoundWhenSound ==
    last.op = "removeGroup" /\ Sound(last.pre) =>
        /\ last.ret = RetBool(FindGroupById(last.pre, last.args.id) # 0)
        /\ FindGroupById(X, last.args.id) = 0

\* removeGroup removed a group nested two levels below a root group.
RemovedDeepGroup ==
    /\ last.op = "removeGroup" /\ last.ret = RetBool(TRUE)
    /\ \E r \in Range(last.pre.groups) : \E c \in Range(last.pre.gp[r].groups) :
           \E d \in Range(last.pre.gp[c].groups) :
               last.pre.gp[d].id = last.args.id /\ d \notin DOMAIN gp

(***************************************************************************)
(* Queries.                                                                *)
(***************************************************************************)
\* The groups reachable from the set S of groups through children.
RECURSIVE GroupClosure(_, _)
GroupClosure(x, S) ==
    IF UNION {Range(x.gp[g].groups) : g \in S} \subseteq S THEN S
    ELSE GroupClosure(x, S \cup UNION {Range(x.gp[g].groups) : g \in S})

\* The groups and the bookmarks of the forest x.
ReachableGroups(x) == GroupClosure(x, Range(x.groups))
ReachableBookmarks(x) ==
    Range(x.bookmarks) \cup UNION {Range(x.gp[g].bookmarks) : g \in ReachableGroups(x)}

\* The listing arr lists every member of the set S once and nothing else.
ListsOnce(arr, S) ==
    /\ Range(arr) = S
    /\ \A i, j \in 1..Len(arr) : i # j => arr[i] # arr[j]

\* The descendants of the groups of gs from index i on, as the amended C15
\* describes them: for each group its children, in order, followed by the
\* descendants of its children.
RECURSIVE DescendantsOf(_, _, _)
DescendantsOf(x, gs, i) ==
    IF i > Len(gs) THEN <<>>
    ELSE x.gp[gs[i]].groups \o DescendantsOf(x, x.gp[gs[i]].groups, 1)
         \o DescendantsOf(x, gs, i + 1)

\* C15 as stated: getAllGroups returns the groups of the forest in
\* pre-order, each group immediately followed by the listing of its first
\* child's subtree.
C15_PreOrder ==
    last.op = "getAllGroups" => last.ret = RetList(PreOrderOf(X, groups, 1))

\* C15 amended: getAllGroups returns every group of the forest exactly once:
\* first the root groups, in order, then for each root group in order its
\* descendants, the descendants of a group being its children, in order,
\* followed by the descendants of each child in order.  All the children of
\* a group thus come before any of its grandchildren, and all the roots
\* before any child.
C15_RootsThenDescendants ==
    last.op = "getAllGroups" =>
        /\ last.ret.kind = "list"
        /\ ListsOnce(last.ret.v, ReachableGroups(X))
        /\ last.ret.v = groups \o DescendantsOf(X, groups, 1)
        /\ X = last.pre

\* getAllGroups listed a forest in an order that is not the pre-order.
C15_ListedOutOfPreOrder ==
    /\ last.op = "getAllGroups"
    /\ last.ret # RetList(PreOrderOf(X, groups, 1))
    /\ Len(groups) > 1

\* The concatenation of what getAllBookmarks() of each group of gs returns.
RECURSIVE CollectedOf(_, _)
CollectedOf(x, gs) ==
    IF gs = <<>> THEN <<>>
    ELSE GroupGetAllBookmarks(x, Head(gs)) \o CollectedOf(x, Tail(gs))

\* C16: group.getAllBookmarks() returns the own bookmarks of the group
\* followed by what it returns for each child, in child order, and changes
\* nothing.
C16_OwnThenChildrenInOrder ==
    last.op = "group.getAllBookmarks" =>
        /\ last.ret.kind = "list"
        /\ last.ret.v = gp[last.args.group].bookmarks
                            \o CollectedOf(X, gp[last.args.group].groups)
        /\ \A i \in 1..Len(gp[last.args.group].bookmarks) :
               last.ret.v[i] = gp[last.args.group].bookmarks[i]
        /\ X = last.pre

\* getAllBookmarks() was called on a group with own bookmarks [z] and
\* children [A, B] holding [x] and [y], and returned [z, x, y].
C16_OwnAndTwoChildren ==
    /\ last.op = "group.getAllBookmarks"
    /\ Len(gp[last.args.group].bookmarks) = 1
    /\ Len(gp[last.args.group].groups) = 2
    /\ Len(gp[gp[last.args.group].groups[1]].bookmarks) = 1
    /\ Len(gp[gp[last.args.group].groups[2]].bookmarks) = 1
    /\ last.ret.v = <<gp[last.args.group].bookmarks[1],
                      gp[gp[last.args.group].groups[1]].bookmarks[1],
                      gp[gp[last.args.group].groups[2]].bookmarks[1]>>

\* The own bookmarks of the groups of the listing gs, in that order.
RECURSIVE OwnBookmarksOf(_, _)
OwnBookmarksOf(x, gs) ==
    IF gs = <<>> THEN <<>>
    ELSE x.gp[Head(gs)].bookmarks \o OwnBookmarksOf(x, Tail(gs))

\* C17: getAllBookmarks returns every bookmark of the forest exactly once:
\* the root bookmarks in order, followed by the own bookmarks of every group
\* of getAllGroups.
C17_EveryBookmarkOnce ==
    last.op = "getAllBookmarks" =>
        /\ last.ret.kind = "list"
        /\ ListsOnce(last.ret.v, ReachableBookmarks(X))
        /\ last.ret.v = bookmarks \o OwnBookmarksOf(X, GetAllGroups(X))

\* getAllBookmarks listed root bookmarks and bookmarks of a nested group.
C17_ListedNestedBookmarks ==
    /\ last.op = "getAllBookmarks"
    /\ Len(bookmarks) > 0
    /\ \E g \in ReachableGroups(X) \ Range(groups) : Len(gp[g].bookmarks) > 0

\* C18: findGroupById(id) returns a group iff some group of getAllGroups has
\* the id, findBookmarkById(id) returns a bookmark iff some bookmark of
\* getAllBookmarks has the id, and what is returned has the id.
C18_FindSearchesForest ==
    /\ last.op = "findGroupById" =>
           /\ last.ret.kind = "ref"
           /\ last.ret.ref # 0 <=> HasId(gp, GetAllGroups(X), last.args.id)
           /\ last.ret.ref # 0 =>
                  /\ last.ret.ref \in ReachableGroups(X)
                  /\ gp[last.ret.ref].id = last.args.id
    /\ last.op = "findBookmarkById" =>
           /\ last.ret.kind = "ref"
           /\ last.ret.ref # 0 <=> HasId(bk, GetAllBookmarks(X), last.args.id)
           /\ last.ret.ref # 0 =>
                  /\ last.ret.ref \in ReachableBookmarks(X)
                  /\ bk[last.ret.ref].id = last.args.id

\* findGroupById returned a group that is a child of a child of a root group.
C18_FoundDeepGroup ==
    /\ last.op = "findGroupById"
    /\ \E r \in Range(groups) : \E c \in Range(gp[r].groups) :
           last.ret.ref \in Range(gp[c].groups)

(***************************************************************************)
(* addBookmark and createGroup.                                            *)
(***************************************************************************)
\* The group an optional id argument of the call recorded in last resolved
\* to in the forest the call started from; 0 when it is absent, empty or
\* does not resolve.
ResolvedGroup(id) == IF Falsy(id) THEN 0 ELSE FindGroupById(last.pre, id)

\* Every group the call found has, but for the group target, the own
\* bookmarks it had, and every bookmark the call found is unchanged.
BookmarksKept(target) ==
    /\ \A g \in DOMAIN last.pre.gp \ {target} :
           g \in DOMAIN gp /\ gp[g].bookmarks = last.pre.gp[g].bookmarks
    /\ \A b \in DOMAIN last.pre.bk : b \in DOMAIN bk /\ bk[b] = last.pre.bk[b]

\* The bookmark nb was appended to the own bookmarks of target, or to the
\* root bookmarks when target is 0, every other bookmark staying in place.
BookmarkPlaced(nb, target) ==
    /\ nb \in DOMAIN bk
    /\ IF target # 0
       THEN /\ gp[target].bookmarks = Append(last.pre.gp[target].bookmarks, nb)
            /\ bookmarks = last.pre.bookmarks
       ELSE bookmarks = Append(last.pre.bookmarks, nb)
    /\ BookmarksKept(target)

\* C19: addBookmark appends the new bookmark to the own bookmarks of the
\* group groupId when groupId resolves, and otherwise to the root bookmarks,
\* without an error; every bookmark present before keeps its place.  When
\* the group already holds a bookmark with the id just generated the new
\* bookmark is dropped.
C19_AddBookmarkPlaced ==
    last.op = "addBookmark" =>
        /\ last.ret = RetRef(last.pre.nextBk)
        /\ BookmarkPlaced(last.pre.nextBk, ResolvedGroup(last.args.groupId))

\* The same unless the group already holds a bookmark with an id of the
\* generated form (the one case in which Group.addBookmark drops the new
\* bookmark), for a forest in which every date is valid.
AddBookmarkPlacedUnlessIdHeld ==
    last.op = "addBookmark" /\ DatesValid(last.pre) =>
        /\ last.ret = RetRef(last.pre.nextBk)
        /\ \/ BookmarkPlaced(last.pre.nextBk, ResolvedGroup(last.args.groupId))
           \/ /\ ResolvedGroup(last.args.groupId) # 0
              /\ \E c \in 0..MaxClock, r \in 0..(RandRange - 1) :
                     HasId(last.pre.bk,
                           last.pre.gp[ResolvedGroup(last.args.groupId)].bookmarks,
                           <<"bookmark", c, r>>)
              /\ Forest(X) = Forest(last.pre)

\* The group ng, empty, was appended to the children of target with target
\* as its parent, or to the root groups without a parent when target is 0.
GroupPlaced(ng, target) ==
    /\ ng \in DOMAIN gp
    /\ gp[ng].bookmarks = <<>> /\ gp[ng].groups = <<>>
    /\ gp[ng].parent = target
    /\ IF target # 0
       THEN /\ gp[target].groups = Append(last.pre.gp[target].groups, ng)
            /\ groups = last.pre.groups
       ELSE groups = Append(last.pre.groups, ng)

\* C20: createGroup attaches the new, empty group as the last child of the
\* group parentId, with that group as its parent, when parentId resolves,
\* and otherwise as the last root group, without a parent.  When the parent
\* already has a child with the id just generated the new group is attached
\* nowhere.
C20_CreateGroupPlaced ==
    last.op = "createGroup" =>
        GroupPlaced(last.pre.nextGp, ResolvedGroup(last.args.parentId))

\* The same unless a child of the parent already has an id of the generated
\* form (the one case in which Group.addGroup drops the new group).
CreateGroupPlacedUnlessIdHeld ==
    last.op = "createGroup" =>
        \/ GroupPlaced(last.pre.nextGp, ResolvedGroup(last.args.parentId))
        \/ /\ ResolvedGroup(last.args.parentId) # 0
           /\ \E c \in 0..MaxClock, r \in 0..(RandRange - 1) :
                  HasId(last.pre.gp,
                        last.pre.gp[ResolvedGroup(last.args.parentId)].groups,
                        <<"group", c, r>>)
           /\ Forest(X) = Forest(last.pre)

\* addBookmark and createGroup placed the new entity in a nested group.
PlacedInNestedGroup ==
    /\ last.op \in {"addBookmark", "createGroup"}
    /\ ResolvedGroup(IF last.op = "addBookmark" THEN last.args.groupId ELSE last.args.parentId)
           \notin Range(last.pre.groups) \cup {0}
    /\ Forest(X) # Forest(last.pre)

(***************************************************************************)
(* The shape of the forest.                                                *)
(***************************************************************************)
\* C21: in every reachable state, for every group reachable in the forest
\* exactly one of these holds: it is a root group of the manager and has no
\* parent, or it has a parent; and when it has a parent, that parent is in
\* the forest and its children contain the group.
C21_ParentChildConsistent ==
    \A g \in ReachableGroups(X) :
        /\ (g \in Range(groups) /\ gp[g].parent = 0) # (gp[g].parent # 0)
        /\ gp[g].parent # 0 =>
               /\ gp[g].parent \in ReachableGroups(X)
               /\ g \in Range(gp[gp[g].parent].groups)

\* createGroup attached a group to a parent that BookmarkGroup.fromJSON had
\* attached to its own parent.
C21_CreatedUnderLoadedChild ==
    /\ last.op = "createGroup"
    /\ last.pre.nextGp \in DOMAIN gp
    /\ gp[last.pre.nextGp].parent # 0
    /\ gp[gp[last.pre.nextGp].parent].parent # 0

\* The groups met from g upwards through at most n parent references.
RECURSIVE AncestorsOf(_, _)
AncestorsOf(g, n) ==
    IF n = 0 \/ gp[g].parent = 0 \/ gp[g].parent \notin DOMAIN gp THEN {}
    ELSE {gp[g].parent} \cup AncestorsOf(gp[g].parent, n - 1)

\* The number of places that hold the group g: entries of the root groups
\* and of the children of every group.
HoldersOf(g) ==
    Cardinality({i \in 1..Len(groups) : groups[i] = g})
    + Cardinality({h \in [a : DOMAIN gp, i : 1..MaxGpObj] :
                      h.i <= Len(gp[h.a].groups) /\ gp[h.a].groups[h.i] = g})

\* C22: after any sequence of manager operations no group is its own
\* descendant, neither through the children nor through the parent chain,
\* every group of the forest is held by exactly one collection, and
\* getAllGroups lists each group exactly once.
C22_Acyclic ==
    /\ \A g \in DOMAIN gp :
           /\ g \notin GroupClosure(X, Range(gp[g].groups))
           /\ g \notin AncestorsOf(g, Cardinality(DOMAIN gp))
           /\ HoldersOf(g) = 1
    /\ ListsOnce(GetAllGroups(X), ReachableGroups(X))

\* Three groups in a chain, the innermost attached by createGroup.
C22_ChainOfThree ==
    /\ last.op = "createGroup"
    /\ \E g \in DOMAIN gp : Cardinality(AncestorsOf(g, MaxGpObj)) = 2

(***************************************************************************)
(* updateGroup.                                                            *)
(***************************************************************************)
\* The group object old with the fields updateGroup(id, name, description)
\* is to set.
Updated(old, name, description) ==
    [old EXCEPT !.name = IF name # undefined THEN name ELSE @,
                !.description = IF description # undefined THEN description ELSE @]

\* The forest is the one before the call but for the name and the
\* description of the group g.
OnlyFieldsSet(g) ==
    /\ bookmarks = last.pre.bookmarks
    /\ groups = last.pre.groups
    /\ bk = last.pre.bk
    /\ DOMAIN gp = DOMAIN last.pre.gp
    /\ \A a \in DOMAIN gp :
           gp[a] = IF a = g
                   THEN Updated(last.pre.gp[a], last.args.name, last.args.description)
                   ELSE last.pre.gp[a]

\* C23: updateGroup(id, name, description) on a group that resolves sets the
\* name only if name is not undefined and the description only if
\* description is not undefined, returns true, and changes nothing else in
\* the forest.  When the forest holds an Invalid Date the call throws.
C23_UpdateGroupFrame ==
    last.op = "updateGroup" /\ FindGroupById(last.pre, last.args.id) # 0 =>
        /\ last.ret = RetBool(TRUE)
        /\ OnlyFieldsSet(FindGroupById(last.pre, last.args.id))

\* The same for a forest in which every date is valid.
UpdateGroupFrameWhenDatesValid ==
    /\ last.op = "updateGroup"
    /\ FindGroupById(last.pre, last.args.id) # 0
    /\ DatesValid(last.pre)
    => /\ last.ret = RetBool(TRUE)
       /\ OnlyFieldsSet(FindGroupById(last.pre, last.args.id))

\* updateGroup threw, having set the fields of the group.
UpdateGroupThrew ==
    /\ last.op = "updateGroup"
    /\ last.ret = RetThrew
    /\ OnlyFieldsSet(FindGroupById(last.pre, last.args.id))
    /\ Forest(X) # Forest(last.pre)

(***************************************************************************)
(* Failures of the persistence write.                                      *)
(***************************************************************************)
\* saveState failed during the call recorded in last.
SaveFailed == Events(last.trace, "throw") # {}

\* The bookmark that moveBookmarkToGroup was asked to move is among the own
\* bookmarks of the group the target id resolved to.
MovedIsInTarget ==
    /\ FindGroupById(last.pre, last.args.targetGroupId) \in DOMAIN gp
    /\ HasId(bk, gp[FindGroupById(last.pre, last.args.targetGroupId)].bookmarks,
             last.args.bookmarkId)

\* C24: when a persistence write fails during a manager operation the forest
\* is the complete forest before the operation or the complete forest after
\* it: the forest is the one the listeners were shown after the mutation,
\* and a failure during moveBookmarkToGroup never leaves the bookmark
\* removed from its source without having been added to the target group.
\* The write inside the removeBookmark that moveBookmarkToGroup calls fails
\* before the bookmark is added to the target.
C24_NoPartialMutation ==
    SaveFailed =>
        \/ Forest(X) = Forest(last.pre)
        \/ /\ \E i \in Events(last.trace, "fire") : last.trace[i].forest = Forest(X)
           /\ last.op = "moveBookmarkToGroup" => MovedIsInTarget

\* The same for the operations other than moveBookmarkToGroup: the failing
\* write is the last step of the call and comes after the one event, which
\* shows the forest the call leaves.
FailedWriteAfterMutation ==
    SaveFailed /\ last.op # "moveBookmarkToGroup" =>
        /\ Len(last.trace) = 2
        /\ last.trace[1].ev = "fire" /\ last.trace[2].ev = "throw"
        /\ last.trace[1].forest = Forest(X)
        /\ store = last.pre.store

(***************************************************************************)
(* openAll and closeAll.                                                   *)
(***************************************************************************)
\* The bookmarks the finished call visited are the own bookmarks of the
\* group at the moment the call was made.
VisitedOwnAtInvocation ==
    running.pc = "done" => running.tried = running.own

\* C25: while a Group.openAll or Group.closeAll call is suspended waiting
\* for the editor the forest is not mutated, no manager mutation of another
\* command interleaves with it, and the bookmarks the call visits are
\* exactly the own bookmarks of the group at the moment it was invoked.
\* Nothing keeps the other commands from running while the call awaits.
C25_NoMutationWhileSuspended ==
    /\ ~running.mutated
    /\ VisitedOwnAtInvocation

\* A call that no manager operation mutated the forest under visited the own
\* bookmarks of the group at the moment it was invoked.
VisitedOwnUnlessMutated ==
    ~running.mutated => VisitedOwnAtInvocation

\* C26 as stated: Group.openAll aborts on the first failure: when opening
\* one of the own bookmarks of the group fails, the failure propagates out
\* of openAll and none of the later bookmarks is opened.
C26_OpenAllAborts ==
    running.op = "openAll" /\ running.failed # <<>> =>
        /\ running.threw
        /\ running.pc = "done"
        /\ running.tried[Len(running.tried)] = running.failed[1]

\* C26 amended: Group.openAll does not abort on a failure: when opening one
\* of the own bookmarks of the group fails, Bookmark.open catches and
\* reports the failure, nothing propagates out of openAll, and the later
\* bookmarks of the group are opened all the same, so that the finished
\* call has tried every bookmark of the array it iterated, the own
\* bookmarks of the invocation first.
C26_OpenAllContinues ==
    running.op = "openAll" =>
        /\ ~running.threw
        /\ Range(running.failed) \subseteq Range(running.tried)
        /\ running.pc = "done" =>
               /\ running.tried = running.arr
               /\ StartsWith(running.tried, running.own)

\* openAll finished having opened a bookmark after the open of an earlier
\* one had failed.
C26_OpenedAfterFailure ==
    /\ running.op = "openAll" /\ running.pc = "done"
    /\ Len(running.tried) >= 2
    /\ running.failed = <<running.tried[1]>>

\* What closeAll has done so far: it has not thrown, it has entered its loop
\* body for a prefix of the array of own bookmarks, in order, and when it
\* has finished, for all of them, whether or not a close failed.
CloseAllBestEffort ==
    running.op = "closeAll" =>
        /\ ~running.threw
        /\ Len(running.tried) <= Len(running.arr)
        /\ running.tried = SubSeq(running.arr, 1, Len(running.tried))
        /\ Range(running.failed) \subseteq Range(running.tried)
        /\ running.pc = "done" =>
               /\ running.tried = running.arr
               /\ StartsWith(running.tried, running.own)

\* C27: Group.closeAll is best-effort and complete: it processes the own
\* bookmarks of the group, not those of descendants, one at a time in
\* order; a failure while closing one bookmark does not abort the remaining
\* ones; and provided every editor call returns or fails, closeAll
\* eventually finishes having attempted every own bookmark, without
\* throwing.
C27_CloseAllCompletes ==
    /\ []CloseAllBestEffort
    /\ (running.op = "closeAll" /\ Suspended(running)) ~> (running.pc = "done")

\* closeAll finished having processed a second bookmark after the close of
\* a tab of the first had failed.
C27_ClosedAfterFailure ==
    /\ running.op = "closeAll" /\ running.pc = "done"
    /\ Len(running.tried) >= 2
    /\ running.failed = <<running.tried[1]>>

(***************************************************************************)
(* Queries by locator.                                                     *)
(***************************************************************************)
\* The bookmarks of the forest, at the root or in a group at any depth,
\* whose locator has the string form of uri.
BookmarksAt(uri) ==
    {b \in ReachableBookmarks(X) : UriToString(bk[b].uri) = UriToString(uri)}

\* isFileBookmarked and getBookmarksForFile answer for the whole forest.
LocatorQueriesExact ==
    /\ last.op = "isFileBookmarked" => last.ret = RetBool(BookmarksAt(last.args.uri) # {})
    /\ last.op = "getBookmarksForFile" =>
           /\ last.ret.kind = "list"
           /\ ListsOnce(last.ret.v, BookmarksAt(last.args.uri))

\* C28: isFileBookmarked(locator) returns true iff some bookmark anywhere
\* in the forest has a locator whose string form equals that of the given
\* locator, getBookmarksForFile(locator) returns exactly those bookmarks,
\* and after addBookmark(locator, ...) isFileBookmarked(locator) is true.
\* A bookmark that addBookmark created and the group dropped is not found.
C28_LocatorQueries ==
    /\ LocatorQueriesExact
    /\ last.op = "addBookmark" => IsFileBookmarked(X, last.args.uri)

\* The same unless the group already holds a bookmark with an id of the
\* generated form and the forest is the one before the call.
AddedIsBookmarkedUnlessIdHeld ==
    last.op = "addBookmark" =>
        \/ IsFileBookmarked(X, last.args.uri)
        \/ /\ ResolvedGroup(last.args.groupId) # 0
           /\ \E c \in 0..MaxClock, r \in 0..(RandRange - 1) :
                  HasId(last.pre.bk,
                        last.pre.gp[ResolvedGroup(last.args.groupId)].bookmarks,
                        <<"bookmark", c, r>>)
           /\ Forest(X) = Forest(last.pre)

\* getBookmarksForFile found a bookmark in a group nested in a group.
FoundNestedByLocator ==
    /\ last.op = "getBookmarksForFile"
    /\ \E b \in Range(last.ret.v) : \E g \in DOMAIN gp :
           b \in Range(gp[g].bookmarks) /\ gp[g].parent # 0

(***************************************************************************)
(* Group.addGroup, as createGroup calls it.                                *)
(***************************************************************************)
\* The objects at the end of the createGroup call recorded in last, the
\* group it returns included, had Date.now() been c and the random suffix r.
CreateGroupOutcome(c, r) ==
    ManagerCreateGroup(last.pre, last.args.name, last.args.description,
                       last.args.parentId, c, r, c).x.gp

\* createGroup called parent.addGroup(child).
AddGroupCalled == last.op = "createGroup" /\ ResolvedGroup(last.args.parentId) # 0

\* A child of the group p had the id of the new group before the call.
ChildIdHeld(p, c, r) == HasId(last.pre.gp, last.pre.gp[p].groups, <<"group", c, r>>)

\* C29 as stated: Group.addGroup(child) sets child.parent to this group
\* unconditionally, also when a child with the same id already exists
\* locally and the child is therefore not appended.
C29_AddGroupSetsParent ==
    AddGroupCalled =>
        \A c \in 0..MaxClock, r \in 0..(RandRange - 1) :
            CreateGroupOutcome(c, r)[last.pre.nextGp].parent
                = ResolvedGroup(last.args.parentId)

\* What addGroup(child) on the group p made of the heap gp1.
AddGroupGuarded(gp1, p, child, held) ==
    IF held
    THEN /\ gp1[child].parent = 0
         /\ gp1[p].groups = last.pre.gp[p].groups
    ELSE /\ gp1[child].parent = p
         /\ gp1[p].groups = Append(last.pre.gp[p].groups, child)

\* C29 amended: Group.addGroup(child) sets child.parent to this group
\* exactly when it appends the child: when a child with the same id already
\* exists locally the child is not appended and its parent reference is
\* left as it was.
C29_AddGroupSetsParentWhenAppending ==
    AddGroupCalled =>
        \A c \in 0..MaxClock, r \in 0..(RandRange - 1) :
            AddGroupGuarded(CreateGroupOutcome(c, r), ResolvedGroup(last.args.parentId),
                            last.pre.nextGp,
                            ChildIdHeld(ResolvedGroup(last.args.parentId), c, r))

\* createGroup called addGroup with a child whose id a child of the parent
\* had, and the new group is not in the forest.
C29_AddGroupRefused ==
    /\ AddGroupCalled
    /\ \E c \in 0..MaxClock, r \in 0..(RandRange - 1) :
           ChildIdHeld(ResolvedGroup(last.args.parentId), c, r)
    /\ last.pre.nextGp \notin DOMAIN gp

(***************************************************************************)
(* importFromJSON returning false.                                         *)
(***************************************************************************)
\* The call recorded in last left the forest and the persisted document as
\* they were and fired no change event.
NothingHappened ==
    /\ Forest(X) = Forest(last.pre)
    /\ store = last.pre.store
    /\ Events(last.trace, "fire") = {}

\* C30: whenever importFromJSON returns false, for any input text and either
\* value of merge, texts that parse to null included, the forest and the
\* persisted document are exactly what they were before the call and no
\* change event has been fired.  The text "null" with merge=false empties
\* the forest before the failure.
C30_FailedImportNoEffect ==
    last.op = "importFromJSON" /\ last.ret = RetBool(FALSE) => NothingHappened

\* The same for a text that JSON.parse rejects.
UnparsableImportNoEffect ==
    last.op = "importFromJSON" /\ ~JSONParse(last.args.jsonData).ok =>
        last.ret = RetBool(FALSE) /\ NothingHappened

\* importFromJSON of the text "null" returned false and emptied the forest
\* without an event.
NullImportEmptied ==
    /\ last.op = "importFromJSON" /\ last.ret = RetBool(FALSE)
    /\ last.args.jsonData = JSONStringify(null)
    /\ last.trace = <<>>
    /\ Forest(X) # Forest(last.pre)
    /\ bookmarks = <<>> /\ groups = <<>>

\* importFromJSON returned false after it had changed the forest and fired
\* the event, because saveState threw.
FailedImportChanged ==
    /\ last.op = "importFromJSON" /\ last.ret = RetBool(FALSE)
    /\ SaveFailed
    /\ Forest(X) # Forest(last.pre)
    /\ Events(last.trace, "fire") # {}

(***************************************************************************)
(* The store and the forest.                                               *)
(***************************************************************************)
\* The forest a fresh manager restores from the document st.
Restored(st) == Forest(Collect(LoadState(EmptyForest(st))))

\* A mutating operation has run to its end, so that its saveState wrote the
\* store.
Written == last.op \in Mutating /\ Events(last.trace, "save") # {}

\* C31: whenever a public manager operation has returned, whatever its
\* result, the document held by the store is the serialization of the
\* current forest, so that a fresh manager restored from the store has a
\* forest equivalent to the current one.  An operation whose saveState
\* throws, and an import of the text "null", leave the old document.
C31_StoreInSync ==
    /\ Restored(store) = Forest(X)
    /\ Written => store = ToJSON(X)

\* A mutating operation all of whose persistence writes succeeded leaves the
\* store in sync with the forest.
SavedInSync ==
    Written /\ ~SaveFailed =>
        /\ store = ToJSON(X)
        /\ Restored(store) = Forest(X)

\* An operation returned and left a store from which another forest is
\* restored, without having thrown: importFromJSON of the text "null".
StoreStaleAfterNullImport ==
    /\ last.op = "importFromJSON" /\ last.args.jsonData = JSONStringify(null)
    /\ last.ret = RetBool(FALSE)
    /\ Restored(store) # Forest(X)

(***************************************************************************)
(* Conservation.                                                           *)
(***************************************************************************)
\* The ids of the bookmarks of the forest x.
BookmarkIdsOf(x) == {x.bk[a].id : a \in Range(GetAllBookmarks(x))}

\* The entries of the listing arr of bookmarks of heap whose id is not id.
Others(heap, arr, id) == SelectSeq(arr, LAMBDA a : heap[a].id # id)

\* Every bookmark with another id than id is in the collection, and at the
\* relative position, it was in before the call.
OthersInPlace(id) ==
    /\ Others(bk, bookmarks, id) = Others(last.pre.bk, last.pre.bookmarks, id)
    /\ DOMAIN gp = DOMAIN last.pre.gp
    /\ \A g \in DOMAIN gp :
           Others(bk, gp[g].bookmarks, id) = Others(last.pre.bk, last.pre.gp[g].bookmarks, id)

\* The move conserved the bookmarks.
Conserved ==
    /\ Len(GetAllBookmarks(X)) = Len(GetAllBookmarks(last.pre))
    /\ BookmarkIdsOf(X) = BookmarkIdsOf(last.pre)
    /\ OthersInPlace(last.args.bookmarkId)

\* C32: a successful moveBookmarkToGroup conserves bookmarks: the number of
\* bookmarks in the forest and the set of bookmark ids are the same before
\* and after the call, and every bookmark other than the moved one keeps its
\* collection and its relative order.  Of two bookmarks that share the id
\* one is lost.
C32_MoveConserves ==
    last.op = "moveBookmarkToGroup" /\ last.ret = RetBool(TRUE) => Conserved

\* The same for a forest in which no id is shared and every date is valid.
MoveConservesWhenSound ==
    last.op = "moveBookmarkToGroup" /\ last.ret = RetBool(TRUE) /\ Sound(last.pre)
        => Conserved

\* A bookmark was moved out of a group that keeps another bookmark.
MovedOutOfSharedGroup ==
    /\ last.op = "moveBookmarkToGroup" /\ last.ret = RetBool(TRUE) /\ Sound(last.pre)
    /\ Forest(X) # Forest(last.pre)
    /\ \E g \in DOMAIN gp :
           /\ Len(last.pre.gp[g].bookmarks) = 2
           /\ Len(gp[g].bookmarks) = 1

(***************************************************************************)
(* The entity a factory operation returns.                                 *)
(***************************************************************************)
\* addBookmark returned the bookmark nb: it is found by its id and the forest
\* has one bookmark more.
ReturnedBookmarkInForest(nb) ==
    /\ last.ret = RetRef(nb)
    /\ nb \in DOMAIN bk
    /\ FindBookmarkById(X, bk[nb].id) = nb
    /\ Len(GetAllBookmarks(X)) = Len(GetAllBookmarks(last.pre)) + 1

\* createGroup returned the group ng: it is found by its id and the forest
\* has one group more.
ReturnedGroupInForest(ng) ==
    /\ last.ret = RetRef(ng)
    /\ ng \in DOMAIN gp
    /\ FindGroupById(X, gp[ng].id) = ng
    /\ Len(GetAllGroups(X)) = Len(GetAllGroups(last.pre)) + 1

\* C33: the entity returned by a factory operation is in the forest: after
\* addBookmark returns bookmark b, findBookmarkById(b.id) returns b and the
\* number of bookmarks has grown by exactly one; after createGroup returns
\* group g, findGroupById(g.id) returns g and the number of groups has grown
\* by exactly one.  When the id generated is already in the forest the
\* lookup returns the older entity, or the new one was dropped.
C33_ReturnedEntityInForest ==
    /\ last.op = "addBookmark" => ReturnedBookmarkInForest(last.pre.nextBk)
    /\ last.op = "createGroup" => ReturnedGroupInForest(last.pre.nextGp)

\* The same when the new entity is in the forest under an id that nothing
\* in the forest had, and every date is valid.
ReturnedEntityInForestWhenIdFresh ==
    /\ /\ last.op = "addBookmark" /\ DatesValid(last.pre)
       /\ last.pre.nextBk \in DOMAIN bk
       /\ ~HasId(last.pre.bk, GetAllBookmarks(last.pre), bk[last.pre.nextBk].id)
       => ReturnedBookmarkInForest(last.pre.nextBk)
    /\ /\ last.op = "createGroup" /\ DatesValid(last.pre)
       /\ last.pre.nextGp \in DOMAIN gp
       /\ ~HasId(last.pre.gp, GetAllGroups(last.pre), gp[last.pre.nextGp].id)
       => ReturnedGroupInForest(last.pre.nextGp)

\* createGroup returned a group that is in the forest, and findGroupById
\* returns another group for its id.
ReturnedGroupShadowed ==
    /\ last.op = "createGroup"
    /\ last.pre.nextGp \in DOMAIN gp
    /\ FindGroupById(X, gp[last.pre.nextGp].id) # last.pre.nextGp

(***************************************************************************)
(* The subtree a removal takes.                                            *)
(***************************************************************************)
\* The groups of the subtree of group t before the call, and the bookmarks
\* they hold.
SubtreeGroups(t) == GroupClosure(last.pre, {t})
SubtreeBookmarks(t) == UNION {Range(last.pre.gp[g].bookmarks) : g \in SubtreeGroups(t)}

\* Nothing of the subtree of t is listed in the forest or returned by a
\* lookup of its id.
SubtreeGone(t) ==
    /\ SubtreeGroups(t) \cap Range(GetAllGroups(X)) = {}
    /\ SubtreeBookmarks(t) \cap Range(GetAllBookmarks(X)) = {}
    /\ \A g \in SubtreeGroups(t) : FindGroupById(X, last.pre.gp[g].id) \notin SubtreeGroups(t)
    /\ \A b \in SubtreeBookmarks(t) :
           FindBookmarkById(X, last.pre.bk[b].id) \notin SubtreeBookmarks(t)

\* Every collection outside the subtree of t holds what it held, in the same
\* order, but for t itself.
OutsideInPlace(t) ==
    /\ bookmarks = last.pre.bookmarks
    /\ groups = SelectSeq(last.pre.groups, LAMBDA a : a # t)
    /\ \A g \in ReachableGroups(last.pre) \ SubtreeGroups(t) :
           /\ g \in DOMAIN gp
           /\ gp[g].bookmarks = last.pre.gp[g].bookmarks
           /\ gp[g].groups = SelectSeq(last.pre.gp[g].groups, LAMBDA a : a # t)

\* C34: a successful removeGroup(id) removes the whole subtree and nothing
\* else: afterwards neither the group nor any of its descendant groups nor
\* any bookmark held in that subtree is returned by findGroupById,
\* findBookmarkById, getAllGroups or getAllBookmarks, while every group and
\* bookmark outside the subtree stays where it was, in the same order.  The
\* group is the one findGroupById(id) resolved before the call.
C34_RemoveGroupTakesSubtree ==
    last.op = "removeGroup" /\ last.ret = RetBool(TRUE) =>
        /\ ResolvedGroup(last.args.id) # 0
        /\ SubtreeGone(ResolvedGroup(last.args.id))
        /\ OutsideInPlace(ResolvedGroup(last.args.id))

\* The same for a forest in which no id is shared and every date is valid.
RemoveGroupTakesSubtreeWhenSound ==
    last.op = "removeGroup" /\ last.ret = RetBool(TRUE) /\ Sound(last.pre) =>
        /\ ResolvedGroup(last.args.id) # 0
        /\ SubtreeGone(ResolvedGroup(last.args.id))
        /\ OutsideInPlace(ResolvedGroup(last.args.id))

\* removeGroup took a nested group that holds something and left a sibling.
RemovedNestedSubtree ==
    /\ last.op = "removeGroup" /\ last.ret = RetBool(TRUE) /\ Sound(last.pre)
    /\ ResolvedGroup(last.args.id) \notin Range(last.pre.groups)
    /\ SubtreeGroups(ResolvedGroup(last.args.id)) # {ResolvedGroup(last.args.id)}
       \/ SubtreeBookmarks(ResolvedGroup(last.args.id)) # {}
    /\ ReachableGroups(X) # {}

(***************************************************************************)
(* Malformed records nested in an imported root group.                     *)
(***************************************************************************)
\* The group record rec itself has its required fields, whatever is nested
\* in it.
HeadWellFormed(rec) ==
    /\ rec # null
    /\ {"id", "name", "bookmarks", "groups", "createdAt"} \subseteq DOMAIN rec

\* The group record rec without the malformed records nested in it, at any
\* depth.
RECURSIVE Pruned(_)
PrunedAll(recs) == [i \in 1..Len(recs) |-> Pruned(recs[i])]
Pruned(rec) ==
    [rec EXCEPT !.bookmarks = SelectSeq(@, WellFormedBookmark),
                !.groups = PrunedAll(SelectSeq(@, HeadWellFormed))]

\* The root groups the import appended.
ImportedGroups == After(Forest(X).groups, KeptRoots(last.pre.groups, last.args.merge))

\* The root group records of the imported document whose only defect is a
\* malformed record nested in them.
DefectiveInside ==
    SelectSeq(DocRecords(last.args.jsonData, "groups"),
              LAMBDA rec : HeadWellFormed(rec) /\ ~WellFormedGroup(rec))

\* C35: in importFromJSON a malformed record costs only itself: when a root
\* group record is well-formed except for a malformed record nested inside
\* it (a malformed bookmark or child group at any depth), only that nested
\* record is skipped and the enclosing root group with its remaining
\* contents is still imported.  BookmarkGroup.fromJSON catches nothing, so
\* the enclosing root group is skipped whole.
C35_NestedMalformedCostsItself ==
    last.op = "importFromJSON" =>
        \A i \in 1..Len(DefectiveInside) :
            \E j \in 1..Len(ImportedGroups) :
                ImportedGroups[j] = GroupValues(<<Pruned(DefectiveInside[i])>>)[1]

\* What the import appends: the root group records that deserialize as a
\* whole, in document order, and no part of any other.
ImportsWholeRootGroups ==
    /\ last.op = "importFromJSON"
    /\ JSONParse(last.args.jsonData).ok
    /\ last.args.jsonData.json # null
    => ImportedGroups = GroupValues(DocRecords(last.args.jsonData, "groups"))

\* An import skipped a root group for a record nested in it and imported
\* the root group after it.
RootSkippedForNestedRecord ==
    /\ last.op = "importFromJSON"
    /\ \E i \in 1..Len(DefectiveInside) :
           ~GroupFromJSON(EmptyForest(absent), DefectiveInside[i]).ok
    /\ Len(ImportedGroups) = 1
    /\ Len(DocRecords(last.args.jsonData, "groups")) = 2

====
